---- MODULE Spec2Model ----
(***************************************************************************)
(* Verification model of the retrieval orchestration core of               *)
(* maintenance-copilot-RAG:                                                *)
(*   backend/app/rag/agent.py  - the LangGraph agent loop                  *)
(*                               (agent -> should_continue -> tools ->     *)
(*                               update_state), the search tool with its   *)
(*                               module-level evidence store, and          *)
(*                               query_rag_agent;                          *)
(*   backend/app/rag/chain.py  - expand_query, retrieve_with_expansion,    *)
(*                               query_rag, _query_rag_agentic,            *)
(*                               _query_rag_legacy and query_rag_stream.   *)
(*                                                                         *)
(* Text is modelled in blocks of 500 characters: a page_content is a       *)
(* sequence of blocks, so the slices [:500] and [:1500] of the code are    *)
(* the first one and the first three blocks.                               *)
(***************************************************************************)
EXTENDS Integers, Sequences, FiniteSets, TLC

(***************************************************************************)
(* Bounds of the model.                                                    *)
(***************************************************************************)
\* settings.MAX_AGENT_ITERATIONS ranges over 0..MaxIterations
MaxIterations == 2
\* total number of tool calls the Generator requests in one agentic run
MaxRequested == 4
\* the same total in the runs that vary the Retriever's results (SpecEvidence)
MaxEvidenceCalls == 2
\* the same total in the runs that vary history and message text (SpecAnswer)
MaxAnswerCalls == 2
\* the same total, per request, when two requests interleave (SpecConc)
MaxConcCalls == 1
\* the fan-out k of a single-pass request ranges over 1..MaxK
MaxK == 2
\* chunks the Generator streams for one answer
MaxChunks == 2
\* tool calls the Generator requests in an agentic run of query_rag (SpecQuery)
MaxQueryCalls == 1
\* the same total in a run that is then run a second time (SpecSeq)
MaxSeqCalls == 2
\* the same total in the runs that are checked for termination (SpecLive)
MaxLiveCalls == 3
\* the same total in the runs with near-duplicate queries (SpecNear)
MaxNearCalls == 3

(***************************************************************************)
(* Program constants.                                                      *)
(***************************************************************************)
\* doc.page_content[:1500], in blocks of 500 characters
PreviewBlocks == 3
\* hash(doc.page_content[:500]), in blocks of 500 characters
HashBlocks == 1
\* expanded[:3]
MaxExpansions == 3
\* all_docs[:k * 2]
CapFactor == 2
\* k: int = 4
DefaultK == 4

None == "None"
SearchTool == "search_maintenance_docs"
OtherTool == "unknown_tool"

Req == {1, 2}

VARIABLES
    max_iterations,    \* settings.MAX_AGENT_ITERATIONS
    store,             \* agent._retrieved_documents_store (module global)
    pc,                \* per request: where query_rag_agent stands
    messages,          \* per request: AgentState["messages"]
    executed_queries,  \* per request: AgentState["executed_queries"]
    iteration_count,   \* per request: AgentState["iteration_count"]
    next_call,         \* per request: tool call of the turn the tools node runs next
    result,            \* per request: what query_rag_agent returned
    retriever_calls,   \* per request: the queries issued to the Retriever, in order
    retrieved,         \* per request: the passages its own searches retrieved, in order
    tool_rounds        \* per request: completed runs of the tools node

agent_vars == <<max_iterations, store, pc, messages, executed_queries,
                iteration_count, next_call, result, retriever_calls,
                retrieved, tool_rounds>>

\* query_rag_stream (chain.py), one streaming request
VARIABLES
    s_pc,              \* where the generator function stands
    s_cfg,             \* settings and arguments the request runs with
    events,            \* the server-sent events yielded so far
    queries_executed,  \* local queries_executed / expanded_queries
    s_i,               \* index of the query the search loop is at
    all_docs,          \* local all_docs of the merge loop
    seen_content,      \* local seen_content of the merge loop
    s_docs,            \* local docs, the passages given to the Generator
    chunks,            \* chunks received from chain.astream so far
    s_out,             \* payloads of the sources and metadata events
    s_calls            \* Generator and Retriever calls made, in order

stream_vars == <<s_pc, s_cfg, events, queries_executed, s_i, all_docs,
                 seen_content, s_docs, chunks, s_out, s_calls>>

\* query_rag (chain.py), one non-streaming request
VARIABLES
    q_pc,                \* where query_rag and the function it calls stand
    q_cfg,               \* settings and arguments the request runs with
    l_queries,           \* retrieve_with_expansion: local queries
    l_i,                 \* retrieve_with_expansion: index of the query being searched
    l_all_docs,          \* retrieve_with_expansion: local all_docs
    l_seen_content,      \* retrieve_with_expansion: local seen_content
    l_docs,              \* _query_rag_legacy: local docs
    l_queries_executed,  \* _query_rag_legacy: local queries_executed
    q_result,            \* what query_rag returned
    q_calls,             \* Generator and Retriever calls made, in order
    q_replies,           \* what the expansion Generator calls came back with, in order
    q_found              \* what the Retriever calls returned, in order

query_vars == <<q_pc, q_cfg, l_queries, l_i, l_all_docs, l_seen_content, l_docs,
                l_queries_executed, q_result, q_calls, q_replies, q_found>>

\* per request of the agent: the external calls that raised, in order
VARIABLES agent_raised

vars == <<agent_vars, stream_vars, query_vars, agent_raised>>

Range(s) == {s[i] : i \in 1..Len(s)}
Min(a, b) == IF a <= b THEN a ELSE b
Take(s, n) == SubSeq(s, 1, Min(Len(s), n))
\* the greatest index in S, 0 when S is empty
LastIndex(S) == IF S = {} THEN 0 ELSE CHOOSE i \in S : \A j \in S : j <= i

(***************************************************************************)
(* Passages returned by the Retriever (langchain Document: page_content    *)
(* and the metadata the code reads).  Page and chunk numbers are kept as   *)
(* their decimal text; None is a missing value.                            *)
(***************************************************************************)
Doc(src, pg, ci, text) ==
    [source |-> src, page |-> pg, chunk_index |-> ci, page_content |-> text]

D1  == Doc("m.pdf", "3", "1", <<"x">>)
\* same (source, page, chunk_index) as D1, other text
D1b == Doc("m.pdf", "3", "1", <<"y">>)
\* same text as D1, other chunk
D2  == Doc("m.pdf", "3", "2", <<"x">>)
\* differs from D1 in the source only, and is longer than the preview
D3  == Doc("n.pdf", "3", "1", <<"z", "z2", "z3", "z4">>)
\* differs from D1 in the page only: no page in the metadata
D4  == Doc("m.pdf", None, "1", <<"x", "w">>)

DedupKey(d) == <<d.source, d.page, d.chunk_index>>

(***************************************************************************)
(* Messages of the transcript (HumanMessage, AIMessage, ToolMessage).      *)
(***************************************************************************)
HumanMessage(text) == [type |-> "human", content |-> text, tool_calls |-> <<>>]
AIMessage(text, calls) == [type |-> "ai", content |-> text, tool_calls |-> calls]
ToolMessage == [type |-> "tool", content |-> "tool output", tool_calls |-> <<>>]
\* what ToolNode puts in the transcript for a tool call it caught an exception of
ToolErrorMessage == [type |-> "tool", content |-> "Error", tool_calls |-> <<>>]

\* an external call of the agent that raised: during which run of the tools
\* node and for which tool call of the turn (0: the Generator call)
RaisedCall(to, round, call) == [to |-> to, round |-> round, call |-> call]

\* the ToolMessages of one run of the tools node, one for each of n tool calls
RoundMessages(raised, round, n) ==
    [i \in 1..n |->
        IF \E j \in DOMAIN raised :
               raised[j] = RaisedCall("retriever", round, i)
            THEN ToolErrorMessage
            ELSE ToolMessage]

ToolCallOf(tool, q) == [name |-> tool, query |-> q]

\* the spellings of a query that differ from it in case or in whitespace only
NearDuplicates(q) ==
    IF q = "q1" THEN {"Q1", "q1 "} ELSE {}

\* hasattr(msg, "tool_calls"): a field of every AIMessage, of no other message
HasToolCallsAttr(msg) == msg.type = "ai"

Question == "question"

\* query_rag_agent, lines 396-408: chat history, then the current question
RECURSIVE HistoryMessages(_)
HistoryMessages(h) ==
    IF h = <<>> THEN <<>>
    ELSE LET rest == HistoryMessages(Tail(h))
         IN  IF Head(h).role = "user"
                 THEN <<HumanMessage(Head(h).content)>> \o rest
             ELSE IF Head(h).role = "assistant"
                 THEN <<AIMessage(Head(h).content, <<>>)>> \o rest
             ELSE rest

InitialMessages(h) == HistoryMessages(h) \o <<HumanMessage(Question)>>

(***************************************************************************)
(* search_maintenance_docs: what one call of the tool does to the store.   *)
(***************************************************************************)
DocEntry(doc, q) ==
    [content     |-> Take(doc.page_content, PreviewBlocks),
     source      |-> doc.source,
     page        |-> doc.page,
     chunk_index |-> doc.chunk_index,
     query       |-> q]

\* mutant: the duplicate test forgets chunk_index
IsDuplicate_IgnoresChunk(st, entry) ==
    \E i \in 1..Len(st) :
        /\ st[i].source = entry.source
        /\ st[i].page = entry.page

IsDuplicate(st, entry) ==
    \E i \in 1..Len(st) :
        /\ st[i].source = entry.source
        /\ st[i].page = entry.page
        /\ st[i].chunk_index = entry.chunk_index

RECURSIVE StoreDocs(_, _, _)
StoreDocs(st, docs, q) ==
    IF docs = <<>> THEN st
    ELSE LET entry == DocEntry(Head(docs), q)
         IN  StoreDocs(IF IsDuplicate(st, entry) THEN st ELSE Append(st, entry),
                       Tail(docs), q)

RECURSIVE Entries(_, _)
Entries(docs, q) ==
    IF docs = <<>> THEN <<>>
    ELSE <<DocEntry(Head(docs), q)>> \o Entries(Tail(docs), q)

(***************************************************************************)
(* should_continue: the routing decision after the agent node.             *)
(***************************************************************************)
\* mutant: the iteration limit is tested with > instead of >=
ShouldContinue_CapOffByOne(msgs, count, executed) ==
    LET last_message == msgs[Len(msgs)]
    IN  IF ~HasToolCallsAttr(last_message) \/ last_message.tool_calls = <<>>
            THEN "end"
        ELSE IF count > max_iterations
            THEN "end"
        ELSE IF \E i \in 1..Len(last_message.tool_calls) :
                    /\ last_message.tool_calls[i].name = SearchTool
                    /\ last_message.tool_calls[i].query \in Range(executed)
            THEN "end"
        ELSE "tools"

\* mutant: loop detection looks at the first tool call of the turn only
ShouldContinue_FirstCallOnly(msgs, count, executed) ==
    LET last_message == msgs[Len(msgs)]
    IN  IF ~HasToolCallsAttr(last_message) \/ last_message.tool_calls = <<>>
            THEN "end"
        ELSE IF count >= max_iterations
            THEN "end"
        ELSE IF /\ last_message.tool_calls[1].name = SearchTool
                /\ last_message.tool_calls[1].query \in Range(executed)
            THEN "end"
        ELSE "tools"

\* mutant: loop detection compares the queries with case and surrounding
\* whitespace removed (q.strip().lower(), on the query strings of the model)
ShouldContinue_Normalised(msgs, count, executed) ==
    LET last_message == msgs[Len(msgs)]
        Normalised(q) == IF q \in NearDuplicates("q1") THEN "q1" ELSE q
    IN  IF ~HasToolCallsAttr(last_message) \/ last_message.tool_calls = <<>>
            THEN "end"
        ELSE IF count >= max_iterations
            THEN "end"
        ELSE IF \E i \in 1..Len(last_message.tool_calls) :
                    /\ last_message.tool_calls[i].name = SearchTool
                    /\ Normalised(last_message.tool_calls[i].query)
                           \in {Normalised(e) : e \in Range(executed)}
            THEN "end"
        ELSE "tools"

\* mutant: the iteration limit is not tested at all
ShouldContinue_NoCap(msgs, count, executed) ==
    LET last_message == msgs[Len(msgs)]
    IN  IF ~HasToolCallsAttr(last_message) \/ last_message.tool_calls = <<>>
            THEN "end"
        ELSE IF \E i \in 1..Len(last_message.tool_calls) :
                    /\ last_message.tool_calls[i].name = SearchTool
                    /\ last_message.tool_calls[i].query \in Range(executed)
            THEN "end"
        ELSE "tools"

ShouldContinue(msgs, count, executed) ==
    LET last_message == msgs[Len(msgs)]
    IN  IF ~HasToolCallsAttr(last_message) \/ last_message.tool_calls = <<>>
            THEN "end"
        ELSE IF count >= max_iterations
            THEN "end"
        ELSE IF \E i \in 1..Len(last_message.tool_calls) :
                    /\ last_message.tool_calls[i].name = SearchTool
                    /\ last_message.tool_calls[i].query \in Range(executed)
            THEN "end"
        ELSE "tools"

(***************************************************************************)
(* update_state_after_tools.                                               *)
(***************************************************************************)
\* index of the most recent message with tool calls, 0 when there is none
LastToolCallIndex(msgs) ==
    LET S == {i \in 1..Len(msgs) :
                 HasToolCallsAttr(msgs[i]) /\ msgs[i].tool_calls # <<>>}
    IN  LastIndex(S)

\* mutant: a query is appended without testing that it is not there yet
RECURSIVE AppendQueries_NoMembershipTest(_, _)
AppendQueries_NoMembershipTest(executed, calls) ==
    IF calls = <<>> THEN executed
    ELSE LET c == Head(calls)
             q == c.query
         IN  AppendQueries_NoMembershipTest(
                 IF c.name = SearchTool /\ q # ""
                     THEN Append(executed, q)
                     ELSE executed,
                 Tail(calls))

RECURSIVE AppendQueries(_, _)
AppendQueries(executed, calls) ==
    IF calls = <<>> THEN executed
    ELSE LET c == Head(calls)
             q == c.query
         IN  AppendQueries(
                 IF c.name = SearchTool /\ q # "" /\ q \notin Range(executed)
                     THEN Append(executed, q)
                     ELSE executed,
                 Tail(calls))

UpdatedQueries(msgs, executed) ==
    LET i == LastToolCallIndex(msgs)
    IN  IF i = 0 THEN executed ELSE AppendQueries(executed, msgs[i].tool_calls)

(***************************************************************************)
(* query_rag_agent: the final answer and the sources.                      *)
(***************************************************************************)
\* lines 426-433: the last AIMessage without tool calls
CleanAnswer(msgs) ==
    LET i == LastIndex({j \in 1..Len(msgs) :
                 /\ msgs[j].type = "ai"
                 /\ \/ ~HasToolCallsAttr(msgs[j])
                    \/ HasToolCallsAttr(msgs[j]) /\ msgs[j].tool_calls = <<>>})
    IN  IF i = 0 THEN "" ELSE msgs[i].content

\* FinalAnswer with no answer at all when no clean one was found
FinalAnswer_NoneWithoutCleanAnswer(msgs) ==
    LET answer == CleanAnswer(msgs)
    IN  IF answer # "" THEN answer ELSE None

\* lines 435-440: when that text is empty, the last AIMessage of any kind
FinalAnswer(msgs) ==
    LET answer == CleanAnswer(msgs)
        i == LastIndex({j \in 1..Len(msgs) : msgs[j].type = "ai"})
    IN  IF answer # "" THEN answer
        ELSE IF i = 0 THEN "" ELSE msgs[i].content

\* line 449: f"{doc['source']}_{doc.get('page')}_{doc.get('chunk_index')}"
SourceKey(e) == e.source \o "_" \o e.page \o "_" \o e.chunk_index

SourceRecord(e) ==
    [document |-> e.source, page |-> e.page, chunk_index |-> e.chunk_index,
     content |-> e.content]

RECURSIVE FormatSources(_, _)
FormatSources(docs, seen_sources) ==
    IF docs = <<>> THEN <<>>
    ELSE LET key == SourceKey(Head(docs))
         IN  IF key \in seen_sources
                 THEN FormatSources(Tail(docs), seen_sources)
                 ELSE <<SourceRecord(Head(docs))>>
                      \o FormatSources(Tail(docs), seen_sources \cup {key})

NoResult == [answer |-> "", sources |-> <<>>, iterations |-> 0,
             queries_executed |-> <<>>, returned |-> FALSE]

(***************************************************************************)
(* The Generator: what chain.invoke may answer in the agent node.  Query   *)
(* strings are opaque, so a turn asks for the empty query, for a query     *)
(* some earlier turn (or this one) asked for, or for the next unused one.  *)
(***************************************************************************)
RECURSIVE RequestedCalls(_)
RequestedCalls(msgs) ==
    IF msgs = <<>> THEN <<>>
    ELSE Head(msgs).tool_calls \o RequestedCalls(Tail(msgs))

QueriesOf(calls) ==
    {calls[i].query : i \in {j \in 1..Len(calls) :
                                calls[j].name = SearchTool /\ calls[j].query # ""}}

FreshQuery(used) == "q" \o ToString(Cardinality(used) + 1)

\* variants says whether a turn may also ask for such a spelling of a query
\* asked for before
RECURSIVE CallSeqs(_, _, _)
CallSeqs(used, n, variants) ==
    IF n = 0 THEN {<<>>}
    ELSE {<<>>} \cup UNION {
             {<<c>> \o rest :
                  rest \in CallSeqs(used \cup QueriesOf(<<c>>), n - 1, variants)} :
                 c \in {ToolCallOf(OtherTool, "")}
                       \cup {ToolCallOf(SearchTool, q) :
                                q \in {""} \cup used \cup {FreshQuery(used)}
                                      \cup IF variants
                                               THEN UNION {NearDuplicates(u) : u \in used}
                                               ELSE {}}}

Responses(msgs, contents, budget, variants) ==
    LET asked == RequestedCalls(msgs)
    IN  {AIMessage(c, calls) :
            c \in contents,
            calls \in CallSeqs(QueriesOf(asked), budget - Len(asked), variants)}

(***************************************************************************)
(* Input sets of the specifications.                                       *)
(***************************************************************************)
NoHistory == {<<>>}
PlainContents == {"text"}
FewResults == {<<>>, <<D1, D2>>}
EvidenceResults == {<<>>, <<D1, D1b>>, <<D1b, D2>>, <<D2, D3, D4>>, <<D4, D1>>}
ConcResults == {<<D1, D2>>, <<D1b, D3>>}

HistoryEntry(role, text) == [role |-> role, content |-> text]
Histories ==
    {<<>>,
     <<HistoryEntry("user", "earlier question"), HistoryEntry("assistant", "old")>>,
     <<HistoryEntry("user", "earlier question"), HistoryEntry("assistant", "")>>,
     <<HistoryEntry("system", "note")>>}
AnswerContents == {"", "new"}


(***************************************************************************)
(* chain.py.  A query and the Generator's expansion text are sequences of  *)
(* characters, so that strip() and split('\n') are computed.               *)
(***************************************************************************)
NL == "\n"
Whitespace == {" ", NL}

RECURSIVE LStrip(_)
LStrip(t) == IF t # <<>> /\ Head(t) \in Whitespace THEN LStrip(Tail(t)) ELSE t

RECURSIVE RStrip(_)
RStrip(t) ==
    IF t # <<>> /\ t[Len(t)] \in Whitespace
        THEN RStrip(SubSeq(t, 1, Len(t) - 1))
        ELSE t

\* str.strip()
Strip(t) == RStrip(LStrip(t))

\* str.split('\n')
RECURSIVE Split(_)
Split(t) ==
    LET at == {i \in 1..Len(t) : t[i] = NL}
    IN  IF at = {} THEN <<t>>
        ELSE LET i == CHOOSE x \in at : \A y \in at : x <= y
             IN  <<SubSeq(t, 1, i - 1)>> \o Split(SubSeq(t, i + 1, Len(t)))

RECURSIVE StripNonBlank(_)
StripNonBlank(lines) ==
    IF lines = <<>> THEN <<>>
    ELSE IF Strip(Head(lines)) # <<>>
        THEN <<Strip(Head(lines))>> \o StripNonBlank(Tail(lines))
    ELSE StripNonBlank(Tail(lines))

\* what the Generator call of expand_query comes back with
Reply(text) == [ok |-> TRUE, text |-> text]
GenerationFailure == [ok |-> FALSE, text |-> <<>>]

\* expand_query without the limit on the number of expansions
ExpandQuery_NoLimit(question, reply) ==
    IF reply.ok
        THEN <<question>> \o StripNonBlank(Split(Strip(reply.text)))
        ELSE <<question>>

\* expand_query, lines 64-83
ExpandQuery(question, reply) ==
    IF reply.ok
        THEN <<question>> \o Take(StripNonBlank(Split(Strip(reply.text))), MaxExpansions)
        ELSE <<question>>

StreamQuestion == <<"o", "i", "l">>

ExpansionReplies ==
    {GenerationFailure,
     Reply(<<>>),
     Reply(<<" ", NL, NL>>),
     Reply(<<"a">>),
     Reply(<<NL, " ", "a", " ", NL, NL, "b", NL>>),
     Reply(<<"a", NL, "b", NL, "c", NL, "d">>),
     Reply(<<"o", "i", "l", NL, "a">>)}

\* hash(doc.page_content[:500]); the hash itself is taken to be injective
ContentHash(doc) == Take(doc.page_content, HashBlocks)

\* MergeDocs with a new passage put in front of the ones merged before
RECURSIVE MergeDocs_NewestFirst(_, _, _)
MergeDocs_NewestFirst(merged, seen, found) ==
    IF found = <<>> THEN [all_docs |-> merged, seen_content |-> seen]
    ELSE LET content_hash == ContentHash(Head(found))
         IN  IF content_hash \notin seen
                 THEN MergeDocs_NewestFirst(<<Head(found)>> \o merged,
                                            seen \cup {content_hash}, Tail(found))
                 ELSE MergeDocs_NewestFirst(merged, seen, Tail(found))

\* lines 472-476 (and 116-121): one Retriever result merged into all_docs
RECURSIVE MergeDocs(_, _, _)
MergeDocs(merged, seen, found) ==
    IF found = <<>> THEN [all_docs |-> merged, seen_content |-> seen]
    ELSE LET content_hash == ContentHash(Head(found))
         IN  IF content_hash \notin seen
                 THEN MergeDocs(Append(merged, Head(found)),
                                seen \cup {content_hash}, Tail(found))
                 ELSE MergeDocs(merged, seen, Tail(found))

\* lines 535-547: the source record of a passage
StreamSource(doc) ==
    [content     |-> Take(doc.page_content, PreviewBlocks),
     source      |-> doc.source,
     page        |-> doc.page,
     chunk_index |-> doc.chunk_index]

StreamSourcesOf(ds) == [n \in 1..Len(ds) |-> StreamSource(ds[n])]

\* what the Retriever may return for one query with fan-out k
StreamResults ==
    {<<>>, <<D1>>, <<D1b>>, <<D2>>, <<D3>>, <<D4>>,
     <<D1, D1b>>, <<D3, D1>>, <<D1b, D3, D2>>}

ResultsFor(k) == {found \in StreamResults : Len(found) <= k}

\* k_arg is <<>> when the caller leaves k out, <<n>> when it passes n
KArgs == {<<>>} \cup {<<n>> : n \in 1..MaxK}

\* k: int = 4
KOf(k_arg) == IF k_arg = <<>> THEN DefaultK ELSE k_arg[1]

\* settings and arguments of query_rag_stream; k is the value of parameter k
Configs ==
    {[use_agentic_rag     |-> agentic,
      langgraph_installed |-> installed,
      use_query_expansion |-> expansion,
      k_arg               |-> k_arg,
      k                   |-> KOf(k_arg)] :
         agentic \in BOOLEAN, installed \in BOOLEAN, expansion \in BOOLEAN,
         k_arg \in KArgs}

DefaultConfig ==
    [use_agentic_rag |-> TRUE, langgraph_installed |-> TRUE,
     use_query_expansion |-> TRUE, k_arg |-> <<>>, k |-> DefaultK]

\* is_agentic_rag_available (agent.py, lines 470-485)
IsAgenticRagAvailable(cfg) == cfg.use_agentic_rag /\ cfg.langgraph_installed

\* the names app.rag.agent defines
AgentModuleNames ==
    {"AgentState", "clear_retrieved_documents", "get_retrieved_documents",
     "create_retrieval_tool", "AGENT_SYSTEM_PROMPT", "create_agent_node",
     "should_continue", "create_tool_node", "update_state_after_tools",
     "create_rag_agent", "query_rag_agent", "is_agentic_rag_available"}

StatusEvent(step) ==
    [kind |-> "status", step |-> step, query |-> <<>>, index |-> 0, total |-> 0]
SearchingEvent(q, i, n) ==
    [kind |-> "status", step |-> "searching", query |-> q, index |-> i, total |-> n]
PlainEvent(kind) ==
    [kind |-> kind, step |-> "", query |-> <<>>, index |-> 0, total |-> 0]

\* an external call and whether it returned (ok) or raised
GeneratorCall(purpose, ok) ==
    [to |-> "generator", what |-> purpose, query |-> <<>>, k |-> 0, ok |-> ok]
\* k is the fan-out the Retriever was created with (get_retriever(k=k))
RetrieverCall(q, k, ok) ==
    [to |-> "retriever", what |-> "search", query |-> q, k |-> k, ok |-> ok]

\* chain.astream is one Generator call, made when the first chunk is awaited
AnswerCallMade(calls, received) ==
    IF received = 0 THEN Append(calls, GeneratorCall("answer", TRUE)) ELSE calls
\* the call made last raised
Raised(calls) == [calls EXCEPT ![Len(calls)].ok = FALSE]

NoOutput == [sources |-> <<>>, mode |-> "", iterations |-> 0,
             queries_executed |-> <<>>]

(***************************************************************************)
(* query_rag and _query_rag_legacy: arguments, settings and result.        *)
(***************************************************************************)
\* a call of query_rag; it never passes use_query_expansion on (line 247)
QueryRagConfigs ==
    [entry               : {"query_rag"},
     use_agent           : {None, "True", "False"},
     use_agentic_rag     : BOOLEAN,
     langgraph_installed : BOOLEAN,
     use_query_expansion : {TRUE},
     k_arg               : KArgs]

\* a call of _query_rag_legacy itself
LegacyConfigs ==
    [entry               : {"_query_rag_legacy"},
     use_agent           : {None},
     use_agentic_rag     : {TRUE},
     langgraph_installed : {TRUE},
     use_query_expansion : BOOLEAN,
     k_arg               : KArgs]

DefaultQueryConfig ==
    [entry |-> "query_rag", use_agent |-> None, use_agentic_rag |-> TRUE,
     langgraph_installed |-> TRUE, use_query_expansion |-> TRUE, k_arg |-> <<>>]

\* the fan-out the request runs with
K(cfg) == KOf(cfg.k_arg)

\* query_rag, line 240
ShouldUseAgent(cfg) ==
    IF cfg.use_agent # None THEN cfg.use_agent = "True" ELSE cfg.use_agentic_rag

\* query_rag, line 242
RunsAgentic(cfg) ==
    cfg.entry = "query_rag" /\ ShouldUseAgent(cfg) /\ IsAgenticRagAvailable(cfg)

\* _query_rag_agentic, lines 269-280
AgenticSource(src) ==
    [content     |-> Take(src.content, PreviewBlocks),
     source      |-> src.document,
     page        |-> src.page,
     chunk_index |-> src.chunk_index]

NoQueryResult ==
    [answer |-> "", sources |-> <<>>, mode |-> "", iterations |-> 0,
     queries_executed |-> <<>>, returned |-> FALSE]

AnswerTexts == {"", "answer"}

\* Retriever results and expansion replies of the non-streaming runs
OneResult == {<<D1>>}
QueryResults == {<<>>, <<D1, D3>>}
\* the runs that vary the Retriever's results (SpecAggregate)
AggregateConfigs == {cfg \in LegacyConfigs : cfg.use_query_expansion}
AggregateReplies == {Reply(<<"a">>), Reply(<<"a", NL, "b", NL, "c">>)}
AggregateResults ==
    {<<>>, <<D1>>, <<D1b>>, <<D2>>, <<D3>>,
     <<D1, D3>>, <<D3, D1b>>, <<D2, D1>>, <<D4, D1b, D3>>}
OneReply == {Reply(<<"a">>)}

\* what the second expand_query of a request may come back with
AgainReplies == {Reply(<<"a">>), Reply(<<"b", NL, "c">>)}

(***************************************************************************)
(* Initial state: no request has started.                                  *)
(***************************************************************************)
Init ==
    /\ max_iterations \in 0..MaxIterations
    /\ store = <<>>
    /\ pc = [r \in Req |-> "idle"]
    /\ messages = [r \in Req |-> <<>>]
    /\ executed_queries = [r \in Req |-> <<>>]
    /\ iteration_count = [r \in Req |-> 0]
    /\ next_call = [r \in Req |-> 0]
    /\ result = [r \in Req |-> NoResult]
    /\ retriever_calls = [r \in Req |-> <<>>]
    /\ retrieved = [r \in Req |-> <<>>]
    /\ tool_rounds = [r \in Req |-> 0]
    /\ s_pc = "idle"
    /\ s_cfg = DefaultConfig
    /\ events = <<>>
    /\ queries_executed = <<>>
    /\ s_i = 0
    /\ all_docs = <<>>
    /\ seen_content = {}
    /\ s_docs = <<>>
    /\ chunks = 0
    /\ s_out = NoOutput
    /\ s_calls = <<>>
    /\ q_pc = "idle"
    /\ q_cfg = DefaultQueryConfig
    /\ l_queries = <<>>
    /\ l_i = 0
    /\ l_all_docs = <<>>
    /\ l_seen_content = {}
    /\ l_docs = <<>>
    /\ l_queries_executed = <<>>
    /\ q_result = NoQueryResult
    /\ q_calls = <<>>
    /\ q_replies = <<>>
    /\ q_found = <<>>
    /\ agent_raised = [r \in Req |-> <<>>]

\* Start without the call of clear_retrieved_documents
Start_KeepsStore(r, histories) ==
    /\ pc[r] = "idle"
    /\ \E h \in histories :
           messages' = [messages EXCEPT ![r] = InitialMessages(h)]
    /\ executed_queries' = [executed_queries EXCEPT ![r] = <<>>]
    /\ iteration_count' = [iteration_count EXCEPT ![r] = 0]
    /\ pc' = [pc EXCEPT ![r] = "agent"]
    /\ UNCHANGED <<max_iterations, store, next_call, result, retriever_calls,
                   retrieved, tool_rounds>>
    /\ UNCHANGED <<stream_vars, query_vars, agent_raised>>

(***************************************************************************)
(* query_rag_agent, lines 393-421: clear the store, build the initial      *)
(* state, enter the graph at the agent node.                               *)
(***************************************************************************)
Start(r, histories) ==
    /\ pc[r] = "idle"
    /\ \E h \in histories :
           messages' = [messages EXCEPT ![r] = InitialMessages(h)]
    /\ store' = <<>>
    /\ executed_queries' = [executed_queries EXCEPT ![r] = <<>>]
    /\ iteration_count' = [iteration_count EXCEPT ![r] = 0]
    /\ pc' = [pc EXCEPT ![r] = "agent"]
    /\ UNCHANGED <<max_iterations, next_call, result, retriever_calls,
                   retrieved, tool_rounds>>
    /\ UNCHANGED <<stream_vars, query_vars, agent_raised>>

\* mutant: the response replaces the transcript (messages without its
\* operator.add reducer)
AgentNode_ReplacesTranscript(r, contents, budget, variants) ==
    /\ pc[r] = "agent"
    /\ \E response \in Responses(messages[r], contents, budget, variants) :
           messages' = [messages EXCEPT ![r] = <<response>>]
    /\ pc' = [pc EXCEPT ![r] = "route"]
    /\ UNCHANGED <<max_iterations, store, executed_queries, iteration_count,
                   next_call, result, retriever_calls, retrieved, tool_rounds>>
    /\ UNCHANGED <<stream_vars, query_vars, agent_raised>>

(***************************************************************************)
(* agent_node: one Generator call; its response is appended.               *)
(***************************************************************************)
AgentNode(r, contents, budget, variants) ==
    /\ pc[r] = "agent"
    /\ \E response \in Responses(messages[r], contents, budget, variants) :
           messages' = [messages EXCEPT ![r] = Append(@, response)]
    /\ pc' = [pc EXCEPT ![r] = "route"]
    /\ UNCHANGED <<max_iterations, store, executed_queries, iteration_count,
                   next_call, result, retriever_calls, retrieved, tool_rounds>>
    /\ UNCHANGED <<stream_vars, query_vars, agent_raised>>

(***************************************************************************)
(* The conditional edge of the graph, decided by should_continue.          *)
(***************************************************************************)
Route(r) ==
    /\ pc[r] = "route"
    /\ IF ShouldContinue(messages[r], iteration_count[r], executed_queries[r]) = "tools"
           THEN /\ pc' = [pc EXCEPT ![r] = "tools"]
                /\ next_call' = [next_call EXCEPT ![r] = 1]
           ELSE /\ pc' = [pc EXCEPT ![r] = "end"]
                /\ UNCHANGED next_call
    /\ UNCHANGED <<max_iterations, store, messages, executed_queries,
                   iteration_count, result, retriever_calls, retrieved,
                   tool_rounds>>
    /\ UNCHANGED <<stream_vars, query_vars, agent_raised>>

(***************************************************************************)
(* The tools node (ToolNode): the tool calls of the last message, one      *)
(* Retriever call each; the ToolMessages are appended when all have run.   *)
(***************************************************************************)
ToolCall(r, results) ==
    /\ pc[r] = "tools"
    /\ LET calls == messages[r][Len(messages[r])].tool_calls
           call == calls[next_call[r]]
           last == next_call[r] = Len(calls)
       IN  /\ IF call.name = SearchTool
                  THEN \E docs \in results :
                          /\ store' = StoreDocs(store, docs, call.query)
                          /\ retriever_calls' =
                                 [retriever_calls EXCEPT ![r] = Append(@, call.query)]
                          /\ retrieved' =
                                 [retrieved EXCEPT ![r] = @ \o Entries(docs, call.query)]
                  ELSE UNCHANGED <<store, retriever_calls, retrieved>>
           /\ IF last
                  THEN /\ messages' = [messages EXCEPT ![r] =
                                          @ \o RoundMessages(agent_raised[r],
                                                             tool_rounds[r], Len(calls))]
                       /\ pc' = [pc EXCEPT ![r] = "update_state"]
                       /\ tool_rounds' = [tool_rounds EXCEPT ![r] = @ + 1]
                       /\ UNCHANGED next_call
                  ELSE /\ next_call' = [next_call EXCEPT ![r] = @ + 1]
                       /\ UNCHANGED <<messages, pc, tool_rounds>>
    /\ UNCHANGED <<max_iterations, executed_queries, iteration_count, result>>
    /\ UNCHANGED <<stream_vars, query_vars, agent_raised>>

\* mutant: iteration_count grows by the number of tool calls of the turn
UpdateState_CountsCalls(r) ==
    /\ pc[r] = "update_state"
    /\ executed_queries' = [executed_queries EXCEPT ![r] =
                               UpdatedQueries(messages[r], @)]
    /\ iteration_count' = [iteration_count EXCEPT ![r] =
           @ + Len(messages[r][LastToolCallIndex(messages[r])].tool_calls)]
    /\ pc' = [pc EXCEPT ![r] = "agent"]
    /\ UNCHANGED <<max_iterations, store, messages, next_call, result,
                   retriever_calls, retrieved, tool_rounds>>
    /\ UNCHANGED <<stream_vars, query_vars, agent_raised>>

\* mutant: executed_queries is rebuilt from the latest turn alone
UpdateState_KeepsLatestTurn(r) ==
    /\ pc[r] = "update_state"
    /\ executed_queries' = [executed_queries EXCEPT ![r] =
                               UpdatedQueries(messages[r], <<>>)]
    /\ iteration_count' = [iteration_count EXCEPT ![r] = @ + 1]
    /\ pc' = [pc EXCEPT ![r] = "agent"]
    /\ UNCHANGED <<max_iterations, store, messages, next_call, result,
                   retriever_calls, retrieved, tool_rounds>>
    /\ UNCHANGED <<stream_vars, query_vars, agent_raised>>

\* mutant: the update_state node is wired to END instead of the agent node
UpdateState_EndsRun(r) ==
    /\ pc[r] = "update_state"
    /\ executed_queries' = [executed_queries EXCEPT ![r] =
                               UpdatedQueries(messages[r], @)]
    /\ iteration_count' = [iteration_count EXCEPT ![r] = @ + 1]
    /\ pc' = [pc EXCEPT ![r] = "end"]
    /\ UNCHANGED <<max_iterations, store, messages, next_call, result,
                   retriever_calls, retrieved, tool_rounds>>
    /\ UNCHANGED <<stream_vars, query_vars, agent_raised>>

(***************************************************************************)
(* update_state_after_tools, then back to the agent node.                  *)
(***************************************************************************)
UpdateState(r) ==
    /\ pc[r] = "update_state"
    /\ executed_queries' = [executed_queries EXCEPT ![r] =
                               UpdatedQueries(messages[r], @)]
    /\ iteration_count' = [iteration_count EXCEPT ![r] = @ + 1]
    /\ pc' = [pc EXCEPT ![r] = "agent"]
    /\ UNCHANGED <<max_iterations, store, messages, next_call, result,
                   retriever_calls, retrieved, tool_rounds>>
    /\ UNCHANGED <<stream_vars, query_vars, agent_raised>>

(***************************************************************************)
(* query_rag_agent, lines 424-467: the graph has ended; extract the        *)
(* answer, read the store, return.                                         *)
(***************************************************************************)
Finish(r) ==
    /\ pc[r] = "end"
    /\ result' = [result EXCEPT ![r] =
                     [answer           |-> FinalAnswer(messages[r]),
                      sources          |-> FormatSources(store, {}),
                      iterations       |-> iteration_count[r],
                      queries_executed |-> executed_queries[r],
                      returned         |-> TRUE]]
    /\ pc' = [pc EXCEPT ![r] = "done"]
    /\ UNCHANGED <<max_iterations, store, messages, executed_queries,
                   iteration_count, next_call, retriever_calls, retrieved,
                   tool_rounds>>
    /\ UNCHANGED <<stream_vars, query_vars, agent_raised>>

(***************************************************************************)
(* Spec: one agentic request, every Generator behaviour within the bounds. *)
(***************************************************************************)
Next ==
    \/ Start(1, NoHistory)
    \/ AgentNode(1, PlainContents, MaxRequested, FALSE)
    \/ Route(1)
    \/ ToolCall(1, FewResults)
    \/ UpdateState(1)
    \/ Finish(1)

Spec == Init /\ [][Next]_vars

(***************************************************************************)
(* query_rag_stream.  Every action runs the generator function from one    *)
(* yield to the next one (or to the exception that ends it).  faults says  *)
(* whether the Retriever and the Generator may raise.                      *)
(***************************************************************************)
\* lines 406-413: the first status event, then the choice of the path
StreamStart ==
    /\ s_pc = "idle"
    /\ \E cfg \in Configs : s_cfg' = cfg
    /\ queries_executed' = <<StreamQuestion>>
    /\ events' = <<StatusEvent("analyzing")>>
    /\ s_pc' = "branch"
    /\ UNCHANGED <<s_i, all_docs, seen_content, s_docs, chunks, s_out, s_calls>>
    /\ UNCHANGED <<agent_vars, query_vars, agent_raised>>

\* lines 415-420: the agentic path imports a name app.rag.agent does not
\* define; the ImportError ends the generator before its next yield
StreamAgentic ==
    /\ s_pc = "branch"
    /\ s_cfg.use_agentic_rag /\ IsAgenticRagAvailable(s_cfg)
    /\ "run_agentic_retrieval_streaming" \notin AgentModuleNames
    /\ s_pc' = "failed"
    /\ UNCHANGED <<s_cfg, events, queries_executed, s_i, all_docs, seen_content,
                   s_docs, chunks, s_out, s_calls>>
    /\ UNCHANGED <<agent_vars, query_vars, agent_raised>>

\* lines 453-458
StreamExpanding ==
    /\ s_pc = "branch"
    /\ ~(s_cfg.use_agentic_rag /\ IsAgenticRagAvailable(s_cfg))
    /\ s_cfg.use_query_expansion
    /\ events' = Append(events, StatusEvent("expanding"))
    /\ s_pc' = "expand"
    /\ UNCHANGED <<s_cfg, queries_executed, s_i, all_docs, seen_content, s_docs,
                   chunks, s_out, s_calls>>
    /\ UNCHANGED <<agent_vars, query_vars, agent_raised>>

\* lines 460-469, first pass: expand_query, then the first 'searching' event
StreamExpandQuery(faults) ==
    /\ s_pc = "expand"
    /\ \E reply \in ExpansionReplies :
           /\ reply.ok \/ faults
           /\ queries_executed' = ExpandQuery(StreamQuestion, reply)
           /\ s_calls' = Append(s_calls, GeneratorCall("expansion", reply.ok))
    /\ all_docs' = <<>>
    /\ seen_content' = {}
    /\ s_i' = 1
    /\ events' = Append(events, SearchingEvent(queries_executed'[1], 1,
                                               Len(queries_executed')))
    /\ s_pc' = "search"
    /\ UNCHANGED <<s_cfg, s_docs, chunks, s_out>>
    /\ UNCHANGED <<agent_vars, query_vars, agent_raised>>

\* StreamSearch with no 'searching' event for the queries after the first
StreamSearch_NoNextEvent(faults) ==
    /\ s_pc = "search"
    /\ \/ /\ faults
          /\ s_calls' = Append(s_calls, RetrieverCall(queries_executed[s_i], s_cfg.k, FALSE))
          /\ s_pc' = "failed"
          /\ UNCHANGED <<events, s_i, all_docs, seen_content, s_docs>>
       \/ \E found \in ResultsFor(s_cfg.k) :
              LET merged == MergeDocs(all_docs, seen_content, found)
              IN  /\ s_calls' = Append(s_calls,
                                      RetrieverCall(queries_executed[s_i], s_cfg.k, TRUE))
                  /\ all_docs' = merged.all_docs
                  /\ seen_content' = merged.seen_content
                  /\ IF s_i < Len(queries_executed)
                         THEN /\ s_i' = s_i + 1
                              /\ UNCHANGED <<events, s_pc, s_docs>>
                         ELSE /\ s_docs' = Take(merged.all_docs, s_cfg.k * CapFactor)
                              /\ events' = Append(events, StatusEvent("processing"))
                              /\ s_pc' = "generate"
                              /\ UNCHANGED s_i
    /\ UNCHANGED <<s_cfg, queries_executed, chunks, s_out>>
    /\ UNCHANGED <<agent_vars, query_vars, agent_raised>>

\* lines 471-480: one Retriever call and its merge, then either the next
\* 'searching' event or the cap and the 'processing' event
StreamSearch(faults) ==
    /\ s_pc = "search"
    /\ \/ /\ faults
          /\ s_calls' = Append(s_calls, RetrieverCall(queries_executed[s_i], s_cfg.k, FALSE))
          /\ s_pc' = "failed"
          /\ UNCHANGED <<events, s_i, all_docs, seen_content, s_docs>>
       \/ \E found \in ResultsFor(s_cfg.k) :
              LET merged == MergeDocs(all_docs, seen_content, found)
              IN  /\ s_calls' = Append(s_calls,
                                      RetrieverCall(queries_executed[s_i], s_cfg.k, TRUE))
                  /\ all_docs' = merged.all_docs
                  /\ seen_content' = merged.seen_content
                  /\ IF s_i < Len(queries_executed)
                         THEN /\ s_i' = s_i + 1
                              /\ events' = Append(events,
                                     SearchingEvent(queries_executed[s_i + 1], s_i + 1,
                                                    Len(queries_executed)))
                              /\ UNCHANGED <<s_pc, s_docs>>
                         ELSE /\ s_docs' = Take(merged.all_docs, s_cfg.k * CapFactor)
                              /\ events' = Append(events, StatusEvent("processing"))
                              /\ s_pc' = "generate"
                              /\ UNCHANGED s_i
    /\ UNCHANGED <<s_cfg, queries_executed, chunks, s_out>>
    /\ UNCHANGED <<agent_vars, query_vars, agent_raised>>

\* lines 484-489: the basic path yields its 'searching' event
StreamBasic ==
    /\ s_pc = "branch"
    /\ ~(s_cfg.use_agentic_rag /\ IsAgenticRagAvailable(s_cfg))
    /\ ~s_cfg.use_query_expansion
    /\ events' = Append(events, StatusEvent("searching"))
    /\ s_pc' = "basic"
    /\ UNCHANGED <<s_cfg, queries_executed, s_i, all_docs, seen_content, s_docs,
                   chunks, s_out, s_calls>>
    /\ UNCHANGED <<agent_vars, query_vars, agent_raised>>

\* StreamBasicSearch with a failed Retriever call taken for an empty result
StreamBasicSearch_SwallowsFailure(faults) ==
    /\ s_pc = "basic"
    /\ \/ /\ faults
          /\ s_calls' = Append(s_calls, RetrieverCall(StreamQuestion, s_cfg.k, FALSE))
          /\ s_docs' = <<>>
          /\ events' = Append(events, StatusEvent("generating"))
          /\ s_pc' = "tokens"
       \/ \E found \in ResultsFor(s_cfg.k) :
              /\ s_calls' = Append(s_calls, RetrieverCall(StreamQuestion, s_cfg.k, TRUE))
              /\ s_docs' = found
              /\ events' = Append(events, StatusEvent("generating"))
              /\ s_pc' = "tokens"
    /\ UNCHANGED <<s_cfg, queries_executed, s_i, all_docs, seen_content, chunks,
                   s_out>>
    /\ UNCHANGED <<agent_vars, query_vars, agent_raised>>

\* lines 490-498: the single Retriever call, then the 'generating' event
StreamBasicSearch(faults) ==
    /\ s_pc = "basic"
    /\ \/ /\ faults
          /\ s_calls' = Append(s_calls, RetrieverCall(StreamQuestion, s_cfg.k, FALSE))
          /\ s_pc' = "failed"
          /\ UNCHANGED <<events, s_docs>>
       \/ \E found \in ResultsFor(s_cfg.k) :
              /\ s_calls' = Append(s_calls, RetrieverCall(StreamQuestion, s_cfg.k, TRUE))
              /\ s_docs' = found
              /\ events' = Append(events, StatusEvent("generating"))
              /\ s_pc' = "tokens"
    /\ UNCHANGED <<s_cfg, queries_executed, s_i, all_docs, seen_content, chunks,
                   s_out>>
    /\ UNCHANGED <<agent_vars, query_vars, agent_raised>>

\* line 498, after the expansion path
StreamGenerating ==
    /\ s_pc = "generate"
    /\ events' = Append(events, StatusEvent("generating"))
    /\ s_pc' = "tokens"
    /\ UNCHANGED <<s_cfg, queries_executed, s_i, all_docs, seen_content, s_docs,
                   chunks, s_out, s_calls>>
    /\ UNCHANGED <<agent_vars, query_vars, agent_raised>>

\* StreamTokens with the sources event yielded only when there are passages
StreamTokens_SourcesOnlyIfAny(faults) ==
    /\ s_pc = "tokens"
    /\ \/ /\ faults
          /\ s_calls' = Raised(AnswerCallMade(s_calls, chunks))
          /\ s_pc' = "failed"
          /\ UNCHANGED <<events, chunks, s_out>>
       \/ /\ chunks < MaxChunks
          /\ s_calls' = AnswerCallMade(s_calls, chunks)
          /\ \E token \in {"", "tok"} :
                 events' = IF token # "" THEN Append(events, PlainEvent("token"))
                                         ELSE events
          /\ chunks' = chunks + 1
          /\ UNCHANGED <<s_pc, s_out>>
       \/ /\ s_calls' = AnswerCallMade(s_calls, chunks)
          /\ events' = IF s_docs # <<>> THEN Append(events, PlainEvent("sources"))
                                        ELSE events
          /\ s_out' = [s_out EXCEPT !.sources = StreamSourcesOf(s_docs)]
          /\ s_pc' = "metadata"
          /\ UNCHANGED chunks
    /\ UNCHANGED <<s_cfg, queries_executed, s_i, all_docs, seen_content, s_docs>>
    /\ UNCHANGED <<agent_vars, query_vars, agent_raised>>

\* lines 516-550: chain.astream; a chunk with text is yielded as a token
\* event, an empty one is skipped; the end of the stream yields the sources
StreamTokens(faults) ==
    /\ s_pc = "tokens"
    /\ \/ /\ faults
          /\ s_calls' = Raised(AnswerCallMade(s_calls, chunks))
          /\ s_pc' = "failed"
          /\ UNCHANGED <<events, chunks, s_out>>
       \/ /\ chunks < MaxChunks
          /\ s_calls' = AnswerCallMade(s_calls, chunks)
          /\ \E token \in {"", "tok"} :
                 events' = IF token # "" THEN Append(events, PlainEvent("token"))
                                         ELSE events
          /\ chunks' = chunks + 1
          /\ UNCHANGED <<s_pc, s_out>>
       \/ /\ s_calls' = AnswerCallMade(s_calls, chunks)
          /\ events' = Append(events, PlainEvent("sources"))
          /\ s_out' = [s_out EXCEPT !.sources = StreamSourcesOf(s_docs)]
          /\ s_pc' = "metadata"
          /\ UNCHANGED chunks
    /\ UNCHANGED <<s_cfg, queries_executed, s_i, all_docs, seen_content, s_docs>>
    /\ UNCHANGED <<agent_vars, query_vars, agent_raised>>

\* lines 552-558
StreamMetadata ==
    /\ s_pc = "metadata"
    /\ events' = Append(events, PlainEvent("metadata"))
    /\ s_out' = [s_out EXCEPT
                    !.mode = IF s_cfg.use_query_expansion
                                 THEN "streaming_with_expansion" ELSE "streaming",
                    !.iterations = Len(queries_executed),
                    !.queries_executed = queries_executed]
    /\ s_pc' = "finish"
    /\ UNCHANGED <<s_cfg, queries_executed, s_i, all_docs, seen_content, s_docs,
                   chunks, s_calls>>
    /\ UNCHANGED <<agent_vars, query_vars, agent_raised>>

\* line 561
StreamDone ==
    /\ s_pc = "finish"
    /\ events' = Append(events, PlainEvent("done"))
    /\ s_pc' = "done"
    /\ UNCHANGED <<s_cfg, queries_executed, s_i, all_docs, seen_content, s_docs,
                   chunks, s_out, s_calls>>
    /\ UNCHANGED <<agent_vars, query_vars, agent_raised>>

(***************************************************************************)
(* SpecStream: one streaming request in every configuration; the           *)
(* Retriever and the Generator may raise.                                  *)
(***************************************************************************)
NextStream ==
    \/ StreamStart
    \/ StreamAgentic
    \/ StreamExpanding
    \/ StreamExpandQuery(TRUE)
    \/ StreamSearch(TRUE)
    \/ StreamBasic
    \/ StreamBasicSearch(TRUE)
    \/ StreamGenerating
    \/ StreamTokens(TRUE)
    \/ StreamMetadata
    \/ StreamDone

SpecStream == Init /\ [][NextStream]_vars

(***************************************************************************)
(* External calls of the agent that raise.                                 *)
(***************************************************************************)
\* agent_node, line 235: chain.invoke raises; the exception leaves
\* agent.ainvoke and query_rag_agent (no handler, lines 419-422)
AgentNodeRaises(r) ==
    /\ pc[r] = "agent"
    /\ agent_raised' = [agent_raised EXCEPT ![r] =
                           Append(@, RaisedCall("generator", tool_rounds[r], 0))]
    /\ pc' = [pc EXCEPT ![r] = "failed"]
    /\ UNCHANGED <<max_iterations, store, messages, executed_queries,
                   iteration_count, next_call, result, retriever_calls,
                   retrieved, tool_rounds>>
    /\ UNCHANGED <<stream_vars, query_vars>>

\* search_maintenance_docs, line 106: retriever.invoke raises inside the
\* tool, which has no handler.  create_tool_node builds ToolNode(tools) with
\* the library's default error handling, which the code does not choose:
\* the exception either leaves the graph, or is caught by the node and
\* answered with an error ToolMessage, after which the run goes on.
ToolCallRaises(r) ==
    /\ pc[r] = "tools"
    /\ LET calls == messages[r][Len(messages[r])].tool_calls
           call == calls[next_call[r]]
           last == next_call[r] = Len(calls)
           raised == Append(agent_raised[r],
                            RaisedCall("retriever", tool_rounds[r], next_call[r]))
       IN  /\ call.name = SearchTool
           /\ retriever_calls' = [retriever_calls EXCEPT ![r] = Append(@, call.query)]
           /\ agent_raised' = [agent_raised EXCEPT ![r] = raised]
           /\ \/ /\ pc' = [pc EXCEPT ![r] = "failed"]
                 /\ UNCHANGED <<messages, next_call, tool_rounds>>
              \/ IF last
                     THEN /\ messages' = [messages EXCEPT ![r] =
                                  @ \o RoundMessages(raised, tool_rounds[r], Len(calls))]
                          /\ pc' = [pc EXCEPT ![r] = "update_state"]
                          /\ tool_rounds' = [tool_rounds EXCEPT ![r] = @ + 1]
                          /\ UNCHANGED next_call
                     ELSE /\ next_call' = [next_call EXCEPT ![r] = @ + 1]
                          /\ UNCHANGED <<messages, pc, tool_rounds>>
    /\ UNCHANGED <<max_iterations, store, executed_queries, iteration_count,
                   result, retrieved>>
    /\ UNCHANGED <<stream_vars, query_vars>>

(***************************************************************************)
(* query_rag.  Every action runs the request up to and including its next  *)
(* external call.  faults says whether that call may raise.                *)
(***************************************************************************)
\* query_rag, lines 239-247, or a call of _query_rag_legacy itself; then
\* _query_rag_legacy, lines 312-316
QueryRag(configs) ==
    /\ q_pc = "idle"
    /\ \E cfg \in configs :
           /\ q_cfg' = cfg
           /\ q_pc' = IF RunsAgentic(cfg) THEN "agentic"
                      ELSE IF cfg.use_query_expansion THEN "expand"
                      ELSE "basic"
           /\ l_queries_executed' = IF RunsAgentic(cfg) THEN <<>>
                                    ELSE <<StreamQuestion>>
    /\ UNCHANGED <<l_queries, l_i, l_all_docs, l_seen_content, l_docs, q_result,
                   q_calls, q_replies, q_found>>
    /\ UNCHANGED <<agent_vars, stream_vars, agent_raised>>

\* RetrieveExpand with a failed expansion ending the request
RetrieveExpand_FailureAborts(replies, faults) ==
    /\ q_pc = "expand"
    /\ \E reply \in replies \cup {GenerationFailure} :
           /\ reply.ok \/ faults
           /\ l_queries' = ExpandQuery(StreamQuestion, reply)
           /\ q_calls' = Append(q_calls, GeneratorCall("expansion", reply.ok))
           /\ q_replies' = Append(q_replies, reply)
           /\ q_pc' = IF reply.ok THEN "search" ELSE "failed"
    /\ l_all_docs' = <<>>
    /\ l_seen_content' = {}
    /\ l_i' = 1
    /\ UNCHANGED <<q_cfg, l_docs, l_queries_executed, q_result, q_found>>
    /\ UNCHANGED <<agent_vars, stream_vars, agent_raised>>

\* retrieve_with_expansion, lines 105-113: expand_query, empty accumulators
RetrieveExpand(replies, faults) ==
    /\ q_pc = "expand"
    /\ \E reply \in replies \cup {GenerationFailure} :
           /\ reply.ok \/ faults
           /\ l_queries' = ExpandQuery(StreamQuestion, reply)
           /\ q_calls' = Append(q_calls, GeneratorCall("expansion", reply.ok))
           /\ q_replies' = Append(q_replies, reply)
    /\ l_all_docs' = <<>>
    /\ l_seen_content' = {}
    /\ l_i' = 1
    /\ q_pc' = "search"
    /\ UNCHANGED <<q_cfg, l_docs, l_queries_executed, q_result, q_found>>
    /\ UNCHANGED <<agent_vars, stream_vars, agent_raised>>

\* retrieve_with_expansion, lines 115-124: one pass of the loop over the
\* queries; after the last one the cap, and the return to _query_rag_legacy
RetrieveSearch(results, faults) ==
    /\ q_pc = "search"
    /\ \/ /\ faults
          /\ q_calls' = Append(q_calls, RetrieverCall(l_queries[l_i], K(q_cfg), FALSE))
          /\ q_pc' = "failed"
          /\ UNCHANGED <<l_i, l_all_docs, l_seen_content, l_docs, q_found>>
       \/ \E found \in {f \in results : Len(f) <= K(q_cfg)} :
              LET merged == MergeDocs(l_all_docs, l_seen_content, found)
              IN  /\ q_calls' = Append(q_calls, RetrieverCall(l_queries[l_i], K(q_cfg), TRUE))
                  /\ q_found' = Append(q_found, found)
                  /\ l_all_docs' = merged.all_docs
                  /\ l_seen_content' = merged.seen_content
                  /\ IF l_i < Len(l_queries)
                         THEN /\ l_i' = l_i + 1
                              /\ UNCHANGED <<q_pc, l_docs>>
                         ELSE /\ l_docs' = Take(merged.all_docs, K(q_cfg) * CapFactor)
                              /\ q_pc' = "expand_again"
                              /\ UNCHANGED l_i
    /\ UNCHANGED <<q_cfg, l_queries, l_queries_executed, q_result, q_replies>>
    /\ UNCHANGED <<agent_vars, stream_vars, agent_raised>>

\* _query_rag_legacy, lines 318-320: expand_query once more, for the metadata
LegacyExpandAgain(replies, faults) ==
    /\ q_pc = "expand_again"
    /\ \E reply \in replies \cup {GenerationFailure} :
           /\ reply.ok \/ faults
           /\ l_queries_executed' = ExpandQuery(StreamQuestion, reply)
           /\ q_calls' = Append(q_calls, GeneratorCall("expansion", reply.ok))
           /\ q_replies' = Append(q_replies, reply)
    /\ q_pc' = "generate"
    /\ UNCHANGED <<q_cfg, l_queries, l_i, l_all_docs, l_seen_content, l_docs,
                   q_result, q_found>>
    /\ UNCHANGED <<agent_vars, stream_vars, agent_raised>>

\* LegacyBasic with expand_query called although expansion is disabled
LegacyBasic_StillExpands(results, faults) ==
    /\ q_pc = "basic"
    /\ \/ /\ faults
          /\ q_calls' = Append(q_calls, RetrieverCall(StreamQuestion, K(q_cfg), FALSE))
          /\ q_pc' = "failed"
          /\ UNCHANGED <<l_docs, q_found>>
       \/ \E found \in {f \in results : Len(f) <= K(q_cfg)} :
              /\ q_calls' = q_calls \o <<GeneratorCall("expansion", TRUE),
                                         RetrieverCall(StreamQuestion, K(q_cfg), TRUE)>>
              /\ q_found' = Append(q_found, found)
              /\ l_docs' = found
              /\ q_pc' = "generate"
    /\ UNCHANGED <<q_cfg, l_queries, l_i, l_all_docs, l_seen_content,
                   l_queries_executed, q_result, q_replies>>
    /\ UNCHANGED <<agent_vars, stream_vars, agent_raised>>

\* _query_rag_legacy, lines 321-323: no expansion, one Retriever call
LegacyBasic(results, faults) ==
    /\ q_pc = "basic"
    /\ \/ /\ faults
          /\ q_calls' = Append(q_calls, RetrieverCall(StreamQuestion, K(q_cfg), FALSE))
          /\ q_pc' = "failed"
          /\ UNCHANGED <<l_docs, q_found>>
       \/ \E found \in {f \in results : Len(f) <= K(q_cfg)} :
              /\ q_calls' = Append(q_calls, RetrieverCall(StreamQuestion, K(q_cfg), TRUE))
              /\ q_found' = Append(q_found, found)
              /\ l_docs' = found
              /\ q_pc' = "generate"
    /\ UNCHANGED <<q_cfg, l_queries, l_i, l_all_docs, l_seen_content,
                   l_queries_executed, q_result, q_replies>>
    /\ UNCHANGED <<agent_vars, stream_vars, agent_raised>>

\* _query_rag_legacy, lines 325-369: the answer, the sources, the result
LegacyGenerate(faults) ==
    /\ q_pc = "generate"
    /\ \/ /\ faults
          /\ q_calls' = Append(q_calls, GeneratorCall("answer", FALSE))
          /\ q_pc' = "failed"
          /\ UNCHANGED q_result
       \/ \E answer \in AnswerTexts :
              /\ q_calls' = Append(q_calls, GeneratorCall("answer", TRUE))
              /\ q_result' =
                     [answer           |-> answer,
                      sources          |-> StreamSourcesOf(l_docs),
                      mode             |-> IF q_cfg.use_query_expansion
                                               THEN "legacy_with_expansion"
                                               ELSE "legacy",
                      iterations       |-> 1,
                      queries_executed |-> l_queries_executed,
                      returned         |-> TRUE]
              /\ q_pc' = "done"
    /\ UNCHANGED <<q_cfg, l_queries, l_i, l_all_docs, l_seen_content, l_docs,
                   l_queries_executed, q_replies, q_found>>
    /\ UNCHANGED <<agent_vars, stream_vars, agent_raised>>

\* _query_rag_agentic, lines 261-290: query_rag_agent has returned
AgenticReturn ==
    /\ q_pc = "agentic"
    /\ pc[1] = "done"
    /\ q_result' =
           [answer           |-> result[1].answer,
            sources          |-> [n \in 1..Len(result[1].sources) |->
                                     AgenticSource(result[1].sources[n])],
            mode             |-> "agentic",
            iterations       |-> result[1].iterations,
            queries_executed |-> result[1].queries_executed,
            returned         |-> TRUE]
    /\ q_pc' = "done"
    /\ UNCHANGED <<q_cfg, l_queries, l_i, l_all_docs, l_seen_content, l_docs,
                   l_queries_executed, q_calls, q_replies, q_found>>
    /\ UNCHANGED <<agent_vars, stream_vars, agent_raised>>

\* _query_rag_agentic, line 261: query_rag_agent has raised; nothing in
\* _query_rag_agentic or query_rag handles it
AgenticRaises ==
    /\ q_pc = "agentic"
    /\ pc[1] = "failed"
    /\ q_pc' = "failed"
    /\ UNCHANGED <<q_cfg, l_queries, l_i, l_all_docs, l_seen_content, l_docs,
                   l_queries_executed, q_result, q_calls, q_replies, q_found>>
    /\ UNCHANGED <<agent_vars, stream_vars, agent_raised>>

\* _query_rag_agentic, line 261: query_rag_agent is being awaited
AwaitsAgent == q_pc = "agentic"

(***************************************************************************)
(* SpecFaults: one agentic request with chat history, in which the         *)
(* Generator and the Retriever may raise.                                  *)
(***************************************************************************)
NextFaults ==
    \/ Start(1, Histories)
    \/ AgentNode(1, AnswerContents, MaxAnswerCalls, FALSE)
    \/ AgentNodeRaises(1)
    \/ Route(1)
    \/ ToolCall(1, FewResults)
    \/ ToolCallRaises(1)
    \/ UpdateState(1)
    \/ Finish(1)

SpecFaults == Init /\ [][NextFaults]_vars

(***************************************************************************)
(* SpecQuery: one non-streaming request, through query_rag in every        *)
(* setting and override, or through _query_rag_legacy itself; every        *)
(* external call may raise.                                                *)
(***************************************************************************)
NextQuery ==
    \/ QueryRag(QueryRagConfigs \cup LegacyConfigs)
    \/ RetrieveExpand(ExpansionReplies, TRUE)
    \/ RetrieveSearch(QueryResults, TRUE)
    \/ LegacyExpandAgain(AgainReplies, TRUE)
    \/ LegacyBasic(QueryResults, TRUE)
    \/ LegacyGenerate(TRUE)
    \/ AwaitsAgent /\ Start(1, NoHistory)
    \/ AwaitsAgent /\ AgentNode(1, PlainContents, MaxQueryCalls, FALSE)
    \/ AwaitsAgent /\ AgentNodeRaises(1)
    \/ AwaitsAgent /\ Route(1)
    \/ AwaitsAgent /\ ToolCall(1, OneResult)
    \/ AwaitsAgent /\ ToolCallRaises(1)
    \/ AwaitsAgent /\ UpdateState(1)
    \/ AwaitsAgent /\ Finish(1)
    \/ AgenticReturn
    \/ AgenticRaises

SpecQuery == Init /\ [][NextQuery]_vars

(***************************************************************************)
(* SpecAggregate: _query_rag_legacy with expansion, over one to four       *)
(* queries and many Retriever results; no call raises.                     *)
(***************************************************************************)
NextAggregate ==
    \/ QueryRag(AggregateConfigs)
    \/ RetrieveExpand(AggregateReplies, FALSE)
    \/ RetrieveSearch(AggregateResults, FALSE)
    \/ LegacyExpandAgain(OneReply, FALSE)
    \/ LegacyGenerate(FALSE)

SpecAggregate == Init /\ [][NextAggregate]_vars

(***************************************************************************)
(* SpecRequest: one request, streaming (query_rag_stream) or not           *)
(* (query_rag, _query_rag_legacy).                                         *)
(***************************************************************************)
\* the request is not a streaming one / is not a non-streaming one
NoStream == s_pc = "idle"
NoQuery == q_pc = "idle"

NextRequest ==
    \/ NoStream /\ QueryRag(QueryRagConfigs \cup LegacyConfigs)
    \/ NoStream /\ RetrieveExpand(ExpansionReplies, TRUE)
    \/ NoStream /\ RetrieveSearch(QueryResults, TRUE)
    \/ NoStream /\ LegacyExpandAgain(AgainReplies, TRUE)
    \/ NoStream /\ LegacyBasic(QueryResults, TRUE)
    \/ NoStream /\ LegacyGenerate(TRUE)
    \/ NoStream /\ AwaitsAgent /\ Start(1, NoHistory)
    \/ NoStream /\ AwaitsAgent /\ AgentNode(1, PlainContents, MaxQueryCalls, FALSE)
    \/ NoStream /\ AwaitsAgent /\ AgentNodeRaises(1)
    \/ NoStream /\ AwaitsAgent /\ Route(1)
    \/ NoStream /\ AwaitsAgent /\ ToolCall(1, OneResult)
    \/ NoStream /\ AwaitsAgent /\ ToolCallRaises(1)
    \/ NoStream /\ AwaitsAgent /\ UpdateState(1)
    \/ NoStream /\ AwaitsAgent /\ Finish(1)
    \/ NoStream /\ AgenticReturn
    \/ NoStream /\ AgenticRaises
    \/ NoQuery /\ StreamStart
    \/ NoQuery /\ StreamAgentic
    \/ NoQuery /\ StreamExpanding
    \/ NoQuery /\ StreamExpandQuery(TRUE)
    \/ NoQuery /\ StreamSearch(TRUE)
    \/ NoQuery /\ StreamBasic
    \/ NoQuery /\ StreamBasicSearch(TRUE)
    \/ NoQuery /\ StreamGenerating
    \/ NoQuery /\ StreamTokens(TRUE)
    \/ NoQuery /\ StreamMetadata
    \/ NoQuery /\ StreamDone

SpecRequest == Init /\ [][NextRequest]_vars

(***************************************************************************)
(* Properties of the agent loop, checked under Spec.                       *)
(***************************************************************************)
LastMessage(r) == messages[r][Len(messages[r])]

\* the latest Generator turn of request r asks for at least one search
RequestsSearch(r) ==
    /\ messages[r] # <<>>
    /\ \E i \in 1..Len(LastMessage(r).tool_calls) :
           LastMessage(r).tool_calls[i].name = SearchTool

NoDuplicates(s) == \A i, j \in 1..Len(s) : s[i] = s[j] => i = j

\* C1: in every reachable state of an agentic run, iteration_count does not
\* exceed max_iterations (settings.MAX_AGENT_ITERATIONS), whatever the
\* Generator answers and for every max_iterations >= 0.
C1_IterationCap ==
    \A r \in Req : iteration_count[r] <= max_iterations

\* C1 witness: the cap is reached and the Generator asks for one more search.
C1_Witness ==
    /\ max_iterations > 0
    /\ iteration_count[1] = max_iterations
    /\ pc[1] = "route"
    /\ RequestsSearch(1)

\* C2: executed_queries never holds a string twice; a query handed to the
\* Retriever by the tools node is not in executed_queries at that moment; and
\* a turn asking for an already executed query is routed to the end.
C2_NoRepeatedExecutedQuery ==
    /\ [](\A r \in Req : NoDuplicates(executed_queries[r]))
    /\ [][\A r \in Req :
             /\ retriever_calls'[r] # retriever_calls[r]
                    => retriever_calls'[r][Len(retriever_calls'[r])]
                           \notin Range(executed_queries[r])
             /\ (/\ pc[r] = "route"
                 /\ \E i \in 1..Len(LastMessage(r).tool_calls) :
                        /\ LastMessage(r).tool_calls[i].name = SearchTool
                        /\ LastMessage(r).tool_calls[i].query
                               \in Range(executed_queries[r]))
                    => pc'[r] = "end" /\ retriever_calls'[r] = retriever_calls[r]
          ]_vars

\* C2 witness (Scenario B): the same query is requested twice in a row, the
\* second request is suppressed and the run is done.
C2_Witness ==
    /\ pc[1] = "done"
    /\ executed_queries[1] = <<"q1">>
    /\ retriever_calls[1] = <<"q1">>
    /\ LastMessage(1).tool_calls = <<ToolCallOf(SearchTool, "q1")>>

\* C7 (as claimed): within one request no query string is issued to the
\* Retriever more than once, the empty string and repeated calls within one
\* turn included.
C7_NoQueryIssuedTwice ==
    \A r \in Req : NoDuplicates(retriever_calls[r])

\* a turn mixes an already executed query with a novel one
MixedTurn(r) ==
    /\ pc[r] \in {"route", "end", "done"}
    /\ LET calls == LastMessage(r).tool_calls
       IN  /\ \E i \in 1..Len(calls) :
                  /\ calls[i].name = SearchTool
                  /\ calls[i].query \in Range(executed_queries[r])
           /\ \E i \in 1..Len(calls) :
                  /\ calls[i].name = SearchTool
                  /\ calls[i].query \notin Range(executed_queries[r])

\* C8: a turn that asks for several searches, one of them already executed,
\* ends the run with nothing of that turn executed: from the routing decision
\* to the return no Retriever call is made and executed_queries,
\* iteration_count and the evidence store stay as they are.
C8_MixedTurnNotExecuted ==
    [][\A r \in Req :
          MixedTurn(r) =>
              /\ pc'[r] \in {"end", "done"}
              /\ retriever_calls'[r] = retriever_calls[r]
              /\ executed_queries'[r] = executed_queries[r]
              /\ iteration_count'[r] = iteration_count[r]
              /\ store' = store
      ]_vars

\* C8 witness: the run is done after a turn <<novel, executed>> with the cap
\* not reached, and the novel query was never issued.
C8_Witness ==
    /\ pc[1] = "done"
    /\ MixedTurn(1)
    /\ iteration_count[1] < max_iterations
    /\ LET calls == LastMessage(1).tool_calls
       IN  /\ Len(calls) = 2
           /\ calls[1].query \notin Range(executed_queries[1])
           /\ calls[1].query # ""
           /\ calls[1].query \notin Range(retriever_calls[1])
           /\ calls[2].query \in Range(executed_queries[1])

\* every Generator turn of the run asks for searches only, each for a query
\* no earlier turn asked for
AlwaysNewSearch(r) ==
    \A i \in 1..Len(messages[r]) :
        messages[r][i].type = "ai" =>
            /\ messages[r][i].tool_calls # <<>>
            /\ \A c \in Range(messages[r][i].tool_calls) :
                   /\ c.name = SearchTool
                   /\ c.query # ""
                   /\ c.query \notin QueriesOf(RequestedCalls(SubSeq(messages[r], 1, i - 1)))

\* C9: with max_iterations = N and a Generator that asks for a new search on
\* every turn, exactly N search rounds run: the request after the N-th round
\* is not executed, the run ends and reports iterations = N.
C9_ExactlyNRounds ==
    \A r \in Req :
        (pc[r] \in {"end", "done"} /\ AlwaysNewSearch(r)) =>
            /\ tool_rounds[r] = max_iterations
            /\ iteration_count[r] = max_iterations
            /\ Len(retriever_calls[r]) >= max_iterations
            /\ RequestsSearch(r)
            /\ LastMessage(r).tool_calls[1].query \notin Range(retriever_calls[r])
            /\ pc[r] = "done" => result[r].iterations = max_iterations

\* C9 witness (Scenario C): max_iterations = 2, three new searches requested,
\* two rounds executed, the run done.
C9_Witness ==
    /\ max_iterations = 2
    /\ pc[1] = "done"
    /\ AlwaysNewSearch(1)
    /\ tool_rounds[1] = 2
    /\ result[1].iterations = 2

(***************************************************************************)
(* SpecEvidence: one agentic request, the Retriever's results varied.      *)
(***************************************************************************)
NextEvidence ==
    \/ Start(1, NoHistory)
    \/ AgentNode(1, PlainContents, MaxEvidenceCalls, FALSE)
    \/ Route(1)
    \/ ToolCall(1, EvidenceResults)
    \/ UpdateState(1)
    \/ Finish(1)

SpecEvidence == Init /\ [][NextEvidence]_vars

(***************************************************************************)
(* SpecAnswer: one agentic request, chat history and message text varied.  *)
(***************************************************************************)
NextAnswer ==
    \/ Start(1, Histories)
    \/ AgentNode(1, AnswerContents, MaxAnswerCalls, FALSE)
    \/ Route(1)
    \/ ToolCall(1, FewResults)
    \/ UpdateState(1)
    \/ Finish(1)

SpecAnswer == Init /\ [][NextAnswer]_vars

(***************************************************************************)
(* SpecConc: two agentic requests of one process; their steps interleave   *)
(* at the Generator and Retriever calls.                                   *)
(***************************************************************************)
NextConc ==
    \E r \in Req :
        \/ Start(r, NoHistory)
        \/ AgentNode(r, PlainContents, MaxConcCalls, FALSE)
        \/ Route(r)
        \/ ToolCall(r, ConcResults)
        \/ UpdateState(r)
        \/ Finish(r)

SpecConc == Init /\ [][NextConc]_vars

(***************************************************************************)
(* SpecSeq: the same question asked twice, the second request starting     *)
(* when the first has returned.  The Generator and the Retriever are       *)
(* deterministic: in the second request every call comes back with what    *)
(* the call at the same place of the first request came back with.         *)
(***************************************************************************)
FirstReturned == pc[1] = "done"

\* the transcript and the passages of request 2 repeat those of request 1
SameAsFirst ==
    /\ messages'[2] = Take(messages[1], Len(messages'[2]))
    /\ retrieved'[2] = Take(retrieved[1], Len(retrieved'[2]))

NextSeq ==
    \/ Start(1, Histories)
    \/ AgentNode(1, PlainContents, MaxSeqCalls, FALSE)
    \/ Route(1)
    \/ ToolCall(1, ConcResults)
    \/ UpdateState(1)
    \/ Finish(1)
    \/ FirstReturned /\ Start(2, Histories) /\ SameAsFirst
    \/ FirstReturned /\ AgentNode(2, PlainContents, MaxSeqCalls, FALSE) /\ SameAsFirst
    \/ FirstReturned /\ Route(2)
    \/ FirstReturned /\ ToolCall(2, ConcResults) /\ SameAsFirst
    \/ FirstReturned /\ UpdateState(2)
    \/ FirstReturned /\ Finish(2)

SpecSeq == Init /\ [][NextSeq]_vars

(***************************************************************************)
(* Properties of the evidence store and of the returned result.            *)
(***************************************************************************)
EntryKey(e) == <<e.source, e.page, e.chunk_index>>
SourceRecordKey(x) == <<x.document, x.page, x.chunk_index>>

\* the positions of s that hold the first passage of their key
FirstSeenAt(s) ==
    {i \in 1..Len(s) : \A j \in 1..(i - 1) : EntryKey(s[j]) # EntryKey(s[i])}

\* s with, of every key, only the first passage kept
FirstSeen(s) ==
    LET I == FirstSeenAt(s)
        nth(n) == CHOOSE i \in I : Cardinality({j \in I : j <= i}) = n
    IN  [n \in 1..Cardinality(I) |-> s[nth(n)]]

SourcesOf(entries) == [n \in 1..Len(entries) |-> SourceRecord(entries[n])]

\* C3: within one agentic request the evidence store, and the sources built
\* from it, never hold two passages with equal (source, page, chunk_index);
\* a retrieved passage whose key is stored leaves the store as it is, so the
\* store is the passages retrieved so far with the first of every key kept.
C3_EvidenceDeduplicated ==
    /\ \A i, j \in 1..Len(store) : EntryKey(store[i]) = EntryKey(store[j]) => i = j
    /\ store = FirstSeen(retrieved[1])
    /\ pc[1] = "done" =>
           /\ \A i, j \in 1..Len(result[1].sources) :
                  SourceRecordKey(result[1].sources[i])
                      = SourceRecordKey(result[1].sources[j]) => i = j
           /\ result[1].sources = SourcesOf(FirstSeen(retrieved[1]))

\* C3 witness: a passage was retrieved whose key was stored with other text,
\* in a later search, and the request returned the first one only.
C3_Witness ==
    /\ pc[1] = "done"
    /\ Len(result[1].sources) >= 2
    /\ \E i, j \in 1..Len(retrieved[1]) :
           /\ i < j
           /\ EntryKey(retrieved[1][i]) = EntryKey(retrieved[1][j])
           /\ retrieved[1][i].content # retrieved[1][j].content
           /\ retrieved[1][i].query # retrieved[1][j].query
           /\ \E n \in 1..Len(result[1].sources) :
                  result[1].sources[n] = SourceRecord(retrieved[1][i])

\* C6 (as claimed): the sources a request returns are exactly the
\* deduplicated passages its own searches retrieved, also when another
\* request runs in between.
C6_SourcesAreOwnEvidence ==
    \A r \in Req :
        pc[r] = "done" => result[r].sources = SourcesOf(FirstSeen(retrieved[r]))

\* the text the claim names: of the last assistant message without tool
\* calls, else of the last assistant message
ClaimedAnswer(msgs) ==
    LET clean == LastIndex({j \in 1..Len(msgs) :
                     msgs[j].type = "ai" /\ msgs[j].tool_calls = <<>>})
        any == LastIndex({j \in 1..Len(msgs) : msgs[j].type = "ai"})
    IN  IF clean # 0 THEN msgs[clean].content
        ELSE IF any # 0 THEN msgs[any].content
        ELSE ""

\* C10 (as claimed): the returned answer is the text of the most recent
\* assistant message without a search request, and only when there is none,
\* the text of the most recent assistant message of any kind.
C10_AnswerIsLastCleanMessage ==
    \A r \in Req :
        pc[r] = "done" => result[r].answer = ClaimedAnswer(messages[r])

(***************************************************************************)
(* Properties of query_rag_stream, checked under SpecStream.               *)
(***************************************************************************)
KeysDistinct(ds) ==
    \A i, j \in DOMAIN ds : i # j => DedupKey(ds[i]) # DedupKey(ds[j])

\* C4: the merged output of the merge loop never holds two passages
\* sharing (source, page, chunk_index), whichever queries returned them,
\* and neither does the sources list of a completed single-pass request.
C4_MergedOutputDeduplicatedByKey ==
    /\ KeysDistinct(all_docs)
    /\ s_pc = "done" => KeysDistinct(s_out.sources)

Kinds(evs) == [n \in 1..Len(evs) |-> evs[n].kind]

\* status* token* sources metadata done
MatchesEventGrammar(kinds) ==
    LET n == Len(kinds)
    IN  /\ n >= 3
        /\ kinds[n - 2] = "sources"
        /\ kinds[n - 1] = "metadata"
        /\ kinds[n] = "done"
        /\ \A i \in 1..(n - 3) : kinds[i] \in {"status", "token"}
        /\ \A i, j \in 1..(n - 3) :
               (i < j /\ kinds[i] = "token") => kinds[j] = "token"

\* C5: the events of a streaming run that ran to completion match
\* status* token* sources metadata done: no status after a token, and
\* sources, metadata, done once each, in that order, as the last three.
C5_CompletedStreamMatchesGrammar ==
    s_pc = "done" => MatchesEventGrammar(Kinds(events))

\* a completed run with expansion over several queries that yielded a token
C5_Witness ==
    /\ s_pc = "done"
    /\ s_cfg.use_query_expansion
    /\ Len(queries_executed) > 1
    /\ \E n \in DOMAIN events : events[n].kind = "token"

(***************************************************************************)
(* Properties of query_rag_agent with failing calls, checked under         *)
(* SpecFaults.                                                             *)
(***************************************************************************)
\* the assistant turns the Generator produced in this run: the AIMessages
\* after the current question
GeneratorTurns(msgs) ==
    LET asked == LastIndex({i \in 1..Len(msgs) : msgs[i] = HumanMessage(Question)})
    IN  {j \in 1..Len(msgs) : j > asked /\ msgs[j].type = "ai"}

\* C11: a run that returns has at least one assistant turn in its
\* transcript and returns an answer that is not null; a run in which the
\* Generator produced no assistant turn ends in an error, with no result.
C11_AnswerOrError ==
    \A r \in Req :
        /\ pc[r] = "done" =>
               /\ GeneratorTurns(messages[r]) # {}
               /\ result[r].returned
               /\ result[r].answer # None
        /\ (pc[r] \in {"end", "done", "failed"} /\ GeneratorTurns(messages[r]) = {}) =>
               /\ pc[r] = "failed"
               /\ ~result[r].returned

\* the first Generator call of a run with chat history raised
C11_Witness ==
    /\ pc[1] = "failed"
    /\ Len(messages[1]) > 1
    /\ GeneratorTurns(messages[1]) = {}
    /\ ~result[1].returned

(***************************************************************************)
(* Properties of the non-streaming request, checked under SpecQuery.       *)
(***************************************************************************)
\* the lines of text t, each given by the positions just before and just
\* after it (a newline, or an end of the text)
LineBounds(t) ==
    LET cuts == {0, Len(t) + 1} \cup {i \in 1..Len(t) : t[i] = NL}
    IN  {<<a, b>> \in cuts \X cuts : a < b /\ \A c \in cuts : ~(a < c /\ c < b)}

InkOf(t, line) == {i \in (line[1] + 1)..(line[2] - 1) : t[i] \notin Whitespace}

NonBlankLines(t) == {line \in LineBounds(t) : InkOf(t, line) # {}}

\* the n-th non-blank line of t, without the whitespace around it
NthStrippedLine(t, n) ==
    LET line == CHOOSE l \in NonBlankLines(t) :
                    Cardinality({m \in NonBlankLines(t) : m[1] < l[1]}) = n - 1
        ink == InkOf(t, line)
        first == CHOOSE i \in ink : \A j \in ink : i <= j
        last == CHOOSE i \in ink : \A j \in ink : j <= i
    IN  SubSeq(t, first, last)

\* C12: for a Generator output text, expand_query returns 1 to 4 queries:
\* the question, then the first (at most 3) non-blank lines of the text,
\* stripped of surrounding whitespace, in the order of the text.
C12_ExpandQueryResult ==
    (q_replies # <<>> /\ q_replies[1].ok) =>
        LET text == q_replies[1].text
            extras == Min(3, Cardinality(NonBlankLines(text)))
        IN  /\ Len(l_queries) \in 1..4
            /\ Len(l_queries) = 1 + extras
            /\ l_queries[1] = StreamQuestion
            /\ \A n \in 1..extras : l_queries[n + 1] = NthStrippedLine(text, n)

\* the output has more than three non-blank lines; the fourth is left out
C12_Witness ==
    /\ q_replies # <<>>
    /\ q_replies[1].ok
    /\ Cardinality(NonBlankLines(q_replies[1].text)) > 3
    /\ Len(l_queries) = 4

(***************************************************************************)
(* Properties of a request of either kind, checked under SpecRequest.      *)
(***************************************************************************)
\* the call made last raised, and it was not an expansion call
EndedByFatalCall(calls) ==
    /\ calls # <<>>
    /\ ~calls[Len(calls)].ok
    /\ calls[Len(calls)].what # "expansion"

FirstExpansionFailed(calls) ==
    calls # <<>> /\ calls[1].what = "expansion" /\ ~calls[1].ok

SearchedQueries(calls) ==
    {calls[i].query : i \in {j \in DOMAIN calls : calls[j].to = "retriever"}}

\* C13: when the Generator call of the query expansion fails, expand_query
\* returns [question]; every Retriever call of the request is made with
\* the question, and the request is not ended by that failure: if it ends
\* in an error, a Retriever call or the answer's Generator call raised.
C13_ExpansionFailureRecovered ==
    /\ FirstExpansionFailed(q_calls) =>
           /\ l_queries = <<StreamQuestion>>
           /\ SearchedQueries(q_calls) \subseteq {StreamQuestion}
           /\ q_pc = "failed" => EndedByFatalCall(q_calls)
    /\ (Len(q_replies) = 2 /\ ~q_replies[2].ok) =>
           /\ l_queries_executed = <<StreamQuestion>>
           /\ q_pc = "failed" => EndedByFatalCall(q_calls)
    /\ FirstExpansionFailed(s_calls) =>
           /\ queries_executed = <<StreamQuestion>>
           /\ SearchedQueries(s_calls) \subseteq {StreamQuestion}
           /\ s_pc = "failed" => EndedByFatalCall(s_calls)

\* a streaming request whose expansion failed has run to its end
C13_Witness ==
    /\ FirstExpansionFailed(s_calls)
    /\ s_pc = "done"
    /\ Len(s_calls) = 3

(***************************************************************************)
(* Properties of retrieve_with_expansion, checked under SpecAggregate.     *)
(***************************************************************************)
RECURSIVE Concat(_)
Concat(seqs) == IF seqs = <<>> THEN <<>> ELSE Head(seqs) \o Concat(Tail(seqs))

\* the positions of ds whose passage has content no earlier passage has
FirstOfContent(ds) ==
    {i \in DOMAIN ds :
        \A j \in 1..(i - 1) : ContentHash(ds[j]) # ContentHash(ds[i])}

\* the n-th smallest element of the set P of numbers
Nth(P, n) == CHOOSE p \in P : Cardinality({x \in P : x < p}) = n - 1

RetrieveReturned == q_pc \in {"expand_again", "generate", "done"}

RanAgentic == q_pc = "agentic" \/ pc[1] # "idle"
RanSinglePass ==
    q_pc \in {"expand", "search", "expand_again", "basic", "generate"} \/ q_calls # <<>>

\* C15: a request to query_rag (the agent's package being installed) runs
\* one path and never both; use_agent = True runs the agentic path and
\* use_agent = False the single-pass path, whatever settings.USE_AGENTIC_RAG
\* is; without use_agent the setting selects the path; and the mode of the
\* result is "agentic" exactly when the agentic path ran.
C15_OverrideSelectsPath ==
    (q_pc # "idle" /\ q_cfg.entry = "query_rag" /\ q_cfg.langgraph_installed) =>
        /\ ~(RanAgentic /\ RanSinglePass)
        /\ RanAgentic \/ RanSinglePass
        /\ q_cfg.use_agent = "True" => RanAgentic
        /\ q_cfg.use_agent = "False" => RanSinglePass
        /\ q_cfg.use_agent = None => (RanAgentic <=> q_cfg.use_agentic_rag)
        /\ q_result.returned => (q_result.mode = "agentic" <=> RanAgentic)

(***************************************************************************)
(* More properties of a request of either kind, checked under SpecRequest. *)
(***************************************************************************)
\* the calls of a single-pass request without expansion that ran to its end
BasicCalls(k) ==
    <<RetrieverCall(StreamQuestion, k, TRUE), GeneratorCall("answer", TRUE)>>

StreamSinglePass == ~(s_cfg.use_agentic_rag /\ IsAgenticRagAvailable(s_cfg))

\* C16: a single-pass request with query expansion disabled makes no
\* expansion call and at most one Retriever call; when it has run to its
\* end it has made exactly one Retriever call, with the question and with
\* k = 4 unless the caller passed k, and it reports
\* queries_executed = [question] and iterations = 1.
C16_NoExpansionOneRetrieval ==
    /\ (q_pc # "idle" /\ ~RunsAgentic(q_cfg) /\ ~q_cfg.use_query_expansion) =>
           /\ \A i \in DOMAIN q_calls : q_calls[i].what # "expansion"
           /\ Cardinality({i \in DOMAIN q_calls : q_calls[i].to = "retriever"}) <= 1
           /\ q_pc = "done" =>
                  /\ q_calls = BasicCalls(IF q_cfg.k_arg = <<>> THEN 4
                                          ELSE q_cfg.k_arg[1])
                  /\ q_result.queries_executed = <<StreamQuestion>>
                  /\ q_result.iterations = 1
    /\ (s_pc # "idle" /\ StreamSinglePass /\ ~s_cfg.use_query_expansion) =>
           /\ \A i \in DOMAIN s_calls : s_calls[i].what # "expansion"
           /\ Cardinality({i \in DOMAIN s_calls : s_calls[i].to = "retriever"}) <= 1
           /\ s_pc = "done" =>
                  /\ s_calls = BasicCalls(IF s_cfg.k_arg = <<>> THEN 4
                                          ELSE s_cfg.k_arg[1])
                  /\ s_out.queries_executed = <<StreamQuestion>>
                  /\ s_out.iterations = 1

\* _query_rag_legacy without expansion and without k has returned
C16_Witness ==
    /\ q_pc = "done"
    /\ ~q_cfg.use_query_expansion
    /\ q_cfg.k_arg = <<>>
    /\ q_result.returned
    /\ q_found # <<>>

(***************************************************************************)
(* Failing calls in the non-streaming request, checked under SpecQuery.    *)
(***************************************************************************)
\* a Retriever call, or a Generator call other than the expansion's, raised
FatalCalls(calls) ==
    {i \in DOMAIN calls : ~calls[i].ok /\ calls[i].what # "expansion"}

\* C17: on the agentic and on the single-pass path, once a Retriever call
\* or a Generator call for agent reasoning or for the answer has raised,
\* the request makes no further call and ends in an error: it returns no
\* answer, sources or metadata.
C17_FailurePropagates ==
    /\ FatalCalls(q_calls) # {} =>
           /\ FatalCalls(q_calls) = {Len(q_calls)}
           /\ q_pc = "failed"
           /\ ~q_result.returned
    /\ agent_raised[1] # <<>> =>
           /\ Len(agent_raised[1]) = 1
           /\ pc[1] = "failed"
           /\ ~result[1].returned
           /\ q_pc \in {"agentic", "failed"}
           /\ ~q_result.returned

(***************************************************************************)
(* Failing calls in the streaming request, checked under SpecStream.       *)
(***************************************************************************)
FinalKinds == {"sources", "metadata", "done"}

Failed == FatalCalls(s_calls) # {}

\* C18: once a Retriever call or the answer's Generator call of a
\* streaming run has raised, the run makes no further call and yields no
\* further event; none of sources, metadata and done has been or will be
\* yielded in that run.
C18_NoEventAfterFailure ==
    /\ [](Failed =>
             /\ s_pc = "failed"
             /\ FatalCalls(s_calls) = {Len(s_calls)}
             /\ \A n \in DOMAIN events : events[n].kind \notin FinalKinds)
    /\ [][Failed => (events' = events /\ s_calls' = s_calls)]_vars

\* the answer's Generator call raised after a token had been yielded
C18_Witness ==
    /\ Failed
    /\ s_calls[Len(s_calls)].what = "answer"
    /\ \E n \in DOMAIN events : events[n].kind = "token"

(***************************************************************************)
(* Two requests in sequence, checked under SpecSeq.                        *)
(***************************************************************************)
\* C19: of two runs of the same question in sequence with the same
\* Retriever and Generator behaviour, the second returns as many
\* queries_executed and as many sources (and as many iterations) as the
\* first; and what the second run holds is its own: the store has only
\* passages its own searches retrieved, executed_queries only queries it
\* issued itself, iteration_count only its own rounds.
C19_SecondRunRepeatsFirst ==
    /\ pc[2] # "idle" =>
           /\ Range(store) \subseteq Range(retrieved[2])
           /\ Range(executed_queries[2]) \subseteq Range(retriever_calls[2])
           /\ iteration_count[2] <= tool_rounds[2]
    /\ pc[2] = "done" =>
           /\ Len(result[2].queries_executed) = Len(result[1].queries_executed)
           /\ Len(result[2].sources) = Len(result[1].sources)
           /\ result[2].iterations = result[1].iterations

\* both runs searched, met a passage twice, and returned
C19_Witness ==
    /\ pc[2] = "done"
    /\ Len(result[2].queries_executed) >= 2
    /\ result[2].sources # <<>>
    /\ Len(result[2].sources) < Len(retrieved[2])

(***************************************************************************)
(* The order of the external calls of a single-pass request, checked       *)
(* under SpecQuery.                                                        *)
(***************************************************************************)
\* the place of a call in the order expansion, retrieval, generation
Phase(call) ==
    IF call.what = "expansion" THEN 1
    ELSE IF call.to = "retriever" THEN 2
    ELSE 3

\* C20: the external calls of a single-pass request are made in the order
\* query expansion, then the retrievals, then the answer's generation; no
\* expansion call is made after a Retriever call.
C20_ExpansionThenRetrievalThenAnswer ==
    \A i, j \in DOMAIN q_calls : i < j => Phase(q_calls[i]) <= Phase(q_calls[j])

(***************************************************************************)
(* SpecStreamLive: one streaming request in every configuration, in which  *)
(* every Retriever and Generator call succeeds.  The consumer reads the    *)
(* response to its end, so the generator function is resumed for as long   *)
(* as it can go on (weak fairness of its steps).                           *)
(***************************************************************************)
NextStreamLive ==
    \/ StreamStart
    \/ StreamAgentic
    \/ StreamExpanding
    \/ StreamExpandQuery(FALSE)
    \/ StreamSearch(FALSE)
    \/ StreamBasic
    \/ StreamBasicSearch(FALSE)
    \/ StreamGenerating
    \/ StreamTokens(FALSE)
    \/ StreamMetadata
    \/ StreamDone

SpecStreamLive == Init /\ [][NextStreamLive]_vars /\ WF_vars(NextStreamLive)

(***************************************************************************)
(* Termination of a streaming request, checked under SpecStreamLive.       *)
(***************************************************************************)
StreamStarted == s_pc # "idle"
DoneEmitted == events # <<>> /\ events[Len(events)].kind = "done"

\* C21: every streaming run in which all Retriever and Generator calls
\* succeed eventually emits the done event, on the agentic path and on the
\* single-pass paths.
C21_SuccessfulStreamEmitsDone == StreamStarted ~> DoneEmitted

(***************************************************************************)
(* The transitions of the agent loop, checked under SpecEvidence.          *)
(***************************************************************************)
\* the state of the loop request r is in: the agent node and the routing
\* decision after it are reasoning, the tools node is acting, update_state
\* is updating, END and the return of query_rag_agent are done
LoopState(r) ==
    IF pc[r] \in {"agent", "route"} THEN "reasoning"
    ELSE IF pc[r] = "tools" THEN "acting"
    ELSE IF pc[r] = "update_state" THEN "updating"
    ELSE IF pc[r] \in {"end", "done"} THEN "done"
    ELSE "not running"

LoopTransitions ==
    {<<"not running", "reasoning">>,
     <<"reasoning", "acting">>, <<"reasoning", "done">>,
     <<"acting", "updating">>, <<"updating", "reasoning">>}

\* C22: the agent loop starts in reasoning and moves only reasoning -> acting,
\* reasoning -> done, acting -> updating and updating -> reasoning; acting and
\* updating always have their one successor, and done has none.
C22_LoopTransitions ==
    /\ [](\A r \in Req :
              /\ pc[r] = "tools" => ENABLED (ToolCall(r, EvidenceResults))
              /\ pc[r] = "update_state" => ENABLED (UpdateState(r)))
    /\ [][\A r \in Req :
              LoopState(r)' # LoopState(r)
                  => <<LoopState(r), LoopState(r)'>> \in LoopTransitions]_vars

\* C22 witness: a run is done after two passes through acting and updating.
C22_Witness ==
    /\ pc[1] = "done"
    /\ tool_rounds[1] = 2
    /\ iteration_count[1] = 2

(***************************************************************************)
(* The 'searching' events of the streaming expansion path, checked under   *)
(* SpecStream.                                                             *)
(***************************************************************************)
IsSearching(ev) == ev.kind = "status" /\ ev.step = "searching"
IsRetrieverCall(call) == call.to = "retriever"

SearchingEvents == SelectSeq(events, IsSearching)
StreamRetrieverCalls == SelectSeq(s_calls, IsRetrieverCall)

StreamExpansionPath == StreamSinglePass /\ s_cfg.use_query_expansion

\* C23: on the streaming expansion path over n queries the i-th Retriever
\* call is immediately preceded by the i-th 'searching' event, which carries
\* the call's query, index i and total n; and a completed run has as many
\* 'searching' events as Retriever calls and as metadata.queries_executed.
C23_SearchingEventBeforeEachCall ==
    /\ [](StreamExpansionPath =>
            /\ \A i \in DOMAIN SearchingEvents :
                   SearchingEvents[i] =
                       SearchingEvent(queries_executed[i], i, Len(queries_executed))
            /\ \A i \in DOMAIN StreamRetrieverCalls :
                   /\ i \in DOMAIN SearchingEvents
                   /\ StreamRetrieverCalls[i].query = SearchingEvents[i].query
            /\ s_pc = "done" =>
                   /\ Len(SearchingEvents) = Len(StreamRetrieverCalls)
                   /\ Len(SearchingEvents) = Len(s_out.queries_executed))
    /\ [][(StreamExpansionPath /\ StreamRetrieverCalls' # StreamRetrieverCalls) =>
             LET n == Len(StreamRetrieverCalls')
             IN  /\ StreamRetrieverCalls' = Append(StreamRetrieverCalls, s_calls'[Len(s_calls')])
                 /\ events[Len(events)] =
                        SearchingEvent(StreamRetrieverCalls'[n].query, n,
                                       Len(queries_executed))
                 /\ Len(SearchingEvents) = n
         ]_vars

\* C23 witness: a completed run over three queries, two of them the same
\* string, with three 'searching' events and three Retriever calls.
C23_Witness ==
    /\ s_pc = "done"
    /\ StreamExpansionPath
    /\ queries_executed = <<StreamQuestion, StreamQuestion, <<"a">>>>
    /\ Len(SearchingEvents) = 3
    /\ Len(StreamRetrieverCalls) = 3

(***************************************************************************)
(* SpecLive: one agentic request in which every Generator and Retriever    *)
(* call returns; agent.ainvoke runs the graph for as long as a node can    *)
(* run (weak fairness of the steps).                                       *)
(***************************************************************************)
NextLive ==
    \/ Start(1, NoHistory)
    \/ AgentNode(1, PlainContents, MaxLiveCalls, FALSE)
    \/ Route(1)
    \/ ToolCall(1, FewResults)
    \/ UpdateState(1)
    \/ Finish(1)

SpecLive == Init /\ [][NextLive]_vars /\ WF_vars(NextLive)

NextNear ==
    \/ Start(1, NoHistory)
    \/ AgentNode(1, PlainContents, MaxNearCalls, TRUE)
    \/ Route(1)
    \/ ToolCall(1, OneResult)
    \/ UpdateState(1)
    \/ Finish(1)

SpecNear == Init /\ [][NextNear]_vars

(***************************************************************************)
(* Loop detection and near-duplicate queries, checked under SpecNear.      *)
(***************************************************************************)
\* the search queries the latest Generator turn of request r asks for
TurnQueries(r) ==
    {c.query : c \in {d \in Range(LastMessage(r).tool_calls) : d.name = SearchTool}}

\* the turn asks for something, the cap is not reached, and none of its
\* search queries is, character for character, in executed_queries
NovelTurn(r) ==
    /\ pc[r] = "route"
    /\ LastMessage(r).tool_calls # <<>>
    /\ iteration_count[r] < max_iterations
    /\ TurnQueries(r) \cap Range(executed_queries[r]) = {}

IssuedQueries ==
    IF RanAgentic
        THEN retriever_calls[1]
        ELSE LET issued == SelectSeq(q_calls, IsRetrieverCall)
             IN  [i \in DOMAIN issued |-> issued[i].query]

\* C26: the queries_executed a completed non-streaming request reports are,
\* element for element and in order, the queries it issued to the Retriever,
\* whatever the Generator does from one call to the next.
C26_ReportedQueriesAreIssuedQueries ==
    q_pc = "done" => q_result.queries_executed = IssuedQueries

(***************************************************************************)
(* Where the returned answer comes from, checked under SpecAnswer.         *)
(***************************************************************************)
\* C27: the answer an agentic run returns is the content of an assistant
\* message the Generator produced during the run, never that of an assistant
\* message of the supplied chat history, also when the run was ended by the
\* iteration cap or by loop detection.
C27_AnswerIsOfThisRun ==
    \A r \in Req :
        pc[r] = "done" =>
            \E j \in GeneratorTurns(messages[r]) :
                result[r].answer = messages[r][j].content

(***************************************************************************)
(* The loop's bookkeeping, checked under SpecEvidence.                     *)
(***************************************************************************)
IsPrefix(s, t) == Len(s) <= Len(t) /\ s = SubSeq(t, 1, Len(s))

\* the non-empty members of s, each at its first place
RECURSIVE FirstOccurrences(_, _)
FirstOccurrences(s, seen) ==
    IF s = <<>> THEN <<>>
    ELSE IF Head(s) = "" \/ Head(s) \in seen
        THEN FirstOccurrences(Tail(s), seen)
    ELSE <<Head(s)>> \o FirstOccurrences(Tail(s), seen \cup {Head(s)})

\* runs of the tools node whose update_state step has run as well
CompletedRounds(r) ==
    IF pc[r] = "update_state" THEN tool_rounds[r] - 1 ELSE tool_rounds[r]

\* C28: iteration_count is the number of completed search rounds, growing by
\* exactly 1 per round whatever the number of tool calls of the turn, and
\* executed_queries only grows at its end; the reported iterations and
\* queries_executed are the rounds and the searched queries in order.
C28_CountsRoundsAndAppendsQueries ==
    /\ [](\A r \in Req :
              /\ iteration_count[r] = CompletedRounds(r)
              /\ pc[r] \in {"agent", "route", "end", "done"} =>
                     executed_queries[r] = FirstOccurrences(retriever_calls[r], {})
              /\ pc[r] = "done" =>
                     /\ result[r].iterations = tool_rounds[r]
                     /\ result[r].queries_executed = executed_queries[r])
    /\ [][\A r \in Req :
              /\ IsPrefix(executed_queries[r], executed_queries'[r])
              /\ iteration_count'[r] =
                     IF pc[r] = "update_state" THEN iteration_count[r] + 1
                     ELSE iteration_count[r]]_vars

\* C28 witness: a run of one round, whose turn asked for two searches.
C28_Witness ==
    /\ pc[1] = "done"
    /\ result[1].iterations = 1
    /\ result[1].queries_executed = <<"q1", "q2">>
    /\ Len(messages[1][2].tool_calls) = 2

(***************************************************************************)
(* SpecPair: the same question asked through _query_rag_legacy and then    *)
(* through query_rag_stream, both on the single-pass path with expansion   *)
(* and with the same k.  The Generator and the Retriever are               *)
(* deterministic: the same expansion prompt gets the same reply and the    *)
(* same query gets the same passages, in both requests; no call raises.    *)
(***************************************************************************)
\* what the Retriever may return for one query in these runs
PairResults == {<<>>, <<D1>>, <<D3, D1>>, <<D1b, D3, D2>>}

QueryReturned == q_pc = "done"

\* within the non-streaming request: one reply for the one expansion prompt,
\* one result for each query string
GeneratorDeterministic ==
    \A i \in DOMAIN q_replies' : q_replies'[i] = q_replies'[1]

RetrieverDeterministic ==
    LET issued == SelectSeq(q_calls', IsRetrieverCall)
    IN  \A i, j \in DOMAIN issued :
            issued[i].query = issued[j].query => q_found'[i] = q_found'[j]

\* the streaming request has the arguments of the non-streaming one
SameRequest ==
    /\ s_cfg'.k_arg = q_cfg.k_arg
    /\ s_cfg'.use_query_expansion
    /\ ~(s_cfg'.use_agentic_rag /\ IsAgenticRagAvailable(s_cfg'))

\* its expansion call gets the reply the non-streaming request got
SameExpansion ==
    queries_executed' = ExpandQuery(StreamQuestion, q_replies[1])

\* its Retriever call gets the passages the non-streaming request got for
\* the query
SameResults ==
    LET merged == MergeDocs(all_docs, seen_content, q_found[s_i])
    IN  /\ all_docs' = merged.all_docs
        /\ seen_content' = merged.seen_content

NextPair ==
    \/ QueryRag(AggregateConfigs)
    \/ RetrieveExpand(ExpansionReplies, FALSE)
    \/ RetrieveSearch(PairResults, FALSE) /\ RetrieverDeterministic
    \/ LegacyExpandAgain(ExpansionReplies, FALSE) /\ GeneratorDeterministic
    \/ LegacyGenerate(FALSE)
    \/ QueryReturned /\ StreamStart /\ SameRequest
    \/ QueryReturned /\ StreamExpanding
    \/ QueryReturned /\ StreamExpandQuery(FALSE) /\ SameExpansion
    \/ QueryReturned /\ StreamSearch(FALSE) /\ SameResults
    \/ QueryReturned /\ StreamGenerating
    \/ QueryReturned /\ StreamTokens(FALSE)
    \/ QueryReturned /\ StreamMetadata
    \/ QueryReturned /\ StreamDone

SpecPair == Init /\ [][NextPair]_vars

(***************************************************************************)
(* The streaming and the non-streaming variant compared, under SpecPair.   *)
(***************************************************************************)
QueriesIssued(calls) ==
    LET issued == SelectSeq(calls, IsRetrieverCall)
    IN  [i \in DOMAIN issued |-> issued[i].query]

\* C29: with the same question and deterministic Retriever and Generator,
\* the streaming and the non-streaming single-pass variant with expansion
\* issue the same Retriever queries in the same order and report the same
\* sources, the same queries_executed and the same iterations.
C29_StreamingMatchesNonStreaming ==
    (q_pc = "done" /\ s_pc = "done") =>
        /\ QueriesIssued(s_calls) = QueriesIssued(q_calls)
        /\ s_out.sources = q_result.sources
        /\ s_out.queries_executed = q_result.queries_executed
        /\ s_out.iterations = q_result.iterations

(***************************************************************************)
(* What each step of the agent loop changes, checked under SpecConc.       *)
(***************************************************************************)
\* the step taken is the agent node, the routing decision or update_state
\* of request r
ReasoningStep(r) == pc[r] = "agent" /\ pc'[r] = "route"
RoutingStep(r) == pc[r] = "route" /\ pc'[r] \in {"tools", "end"}
UpdatingStep(r) == pc[r] = "update_state" /\ pc'[r] = "agent"

\* C30: the reasoning step appends exactly one assistant message and leaves
\* executed_queries, iteration_count and the evidence store as they are; the
\* routing decision changes none of them; the updating step changes only
\* executed_queries and iteration_count and leaves the transcript and the
\* store as they are.
C30_StepsChangeOwnPart ==
    [][\A r \in Req :
          /\ ReasoningStep(r) =>
                 /\ Len(messages'[r]) = Len(messages[r]) + 1
                 /\ SubSeq(messages'[r], 1, Len(messages[r])) = messages[r]
                 /\ messages'[r][Len(messages'[r])].type = "ai"
                 /\ executed_queries'[r] = executed_queries[r]
                 /\ iteration_count'[r] = iteration_count[r]
                 /\ store' = store
          /\ RoutingStep(r) =>
                 /\ messages'[r] = messages[r]
                 /\ executed_queries'[r] = executed_queries[r]
                 /\ iteration_count'[r] = iteration_count[r]
                 /\ store' = store
                 /\ retriever_calls'[r] = retriever_calls[r]
          /\ UpdatingStep(r) =>
                 /\ messages'[r] = messages[r]
                 /\ store' = store
                 /\ retriever_calls'[r] = retriever_calls[r]
      ]_vars

\* C30 witness: a run has taken all three steps, with passages in the store,
\* and its Generator has answered a second time.
C30_Witness ==
    /\ pc[1] = "route"
    /\ iteration_count[1] = 1
    /\ executed_queries[1] # <<>>
    /\ store # <<>>
    /\ Cardinality(GeneratorTurns(messages[1])) = 2

====
